---- MODULE Spec2Model ----
(***************************************************************************)
(* A model of the EDF+ streaming writer (src/src/writer.rs) and of the     *)
(* reader's header, annotation and sample decoding (src/src/reader.rs).    *)
(*                                                                         *)
(* The file is a sequence of bytes (integers 0..255).  Text is a sequence  *)
(* of character codes.  Times are integers in ticks of 100 ns, as in the   *)
(* code (EDFLIB_TIME_DIMENSION ticks per second); the f64 seconds the code *)
(* derives from them are modelled by exact decimal arithmetic, which is    *)
(* what the f64 computations yield for the record durations used here      *)
(* (0.5 s and 1 s are exact binary fractions).                             *)
(***************************************************************************)
EXTENDS Integers, Sequences, FiniteSets, TLC

VARIABLES
    signals,              \* EdfWriter.signals
    datarecord_duration,  \* EdfWriter.datarecord_duration (ticks)
    samples_written,      \* EdfWriter.samples_written (records written)
    header_written,       \* EdfWriter.header_written
    patient_code,         \* EdfWriter.patient_code
    sex,                  \* EdfWriter.sex
    birthdate,            \* EdfWriter.birthdate
    patient_name,         \* EdfWriter.patient_name
    annotations,          \* EdfWriter.annotations
    starttime_subsecond,  \* EdfWriter.starttime_subsecond
    nr_annot_chns,        \* EdfWriter.nr_annot_chns
    file,                 \* the bytes the writer has emitted, in file order
    status,               \* "open", "finalized" (consumed by finalize) or "panicked"
    call,                 \* the last call made and the Result it returned
    header_flushes,       \* how many times write_header emitted a header
    seeks,                \* how many backward seeks have been made
    encoded,              \* <<annotation index, record, channel>> of every encoded annotation
    added,                \* per accepted add_annotation call: its arguments, and the
                          \* number of records written when it was made
    tal_units,            \* the pieces of the block handed to parse_tal_data
    reader,               \* the EdfReader a client holds (opened |-> FALSE: none)
    readers,              \* the readers of a client with several of them, and their file handles
    result                \* the last call on the reader side and what it returned

writer == <<signals, datarecord_duration, samples_written, header_written,
            patient_code, sex, birthdate, patient_name, annotations,
            starttime_subsecond, nr_annot_chns>>

vars == <<signals, datarecord_duration, samples_written, header_written,
          patient_code, sex, birthdate, patient_name, annotations,
          starttime_subsecond, nr_annot_chns, file, status, call,
          header_flushes, seeks, encoded, added, tal_units, readers, reader, result>>

\* The reader side: no call of the writer touches it.
reading == <<tal_units, readers, reader, result>>

(***************************************************************************)
(* Program constants.                                                      *)
(***************************************************************************)
EDFLIB_TIME_DIMENSION == 10000000

EDFLIB_MAX_ANNOTATION_CHANNELS == 64

EDFLIB_ANNOTATION_BYTES == 120

EDFLIB_WRITE_MAX_ANNOTATION_LEN == 40

EDFLIB_MAX_ANNOTATION_LEN == 512

EDFLIB_MAXSIGNALS == 4096

MaxRecordDurationSeconds == 3600

(***************************************************************************)
(* Bounds of the model.                                                    *)
(***************************************************************************)
MaxSignals == 2

MaxRecords == 2

MaxAnnots == 1

MaxAnnotsTal == 4

(***************************************************************************)
(* Text helpers.                                                           *)
(***************************************************************************)
Min(a, b) == IF a < b THEN a ELSE b

Max(a, b) == IF a > b THEN a ELSE b

Rep(b, n) == [i \in 1..n |-> b]

Take(s, n) == SubSeq(s, 1, Min(n, Len(s)))

RECURSIVE Digits(_)
\* The decimal digits of a natural number, as character codes.
Digits(n) == IF n < 10 THEN <<48 + n>> ELSE Digits(n \div 10) \o <<48 + (n % 10)>>

\* Display of an integer, and of an f64 holding an integer value.
DecStr(n) == IF n < 0 THEN <<45>> \o Digits(-n) ELSE Digits(n)

\* format!("{:<w}", s): left-aligned, padded with spaces to at least w, never cut.
PadLeftAlign(s, w) == IF Len(s) >= w THEN s ELSE s \o Rep(32, w - Len(s))

\* A fixed-size field filled with spaces, then the first min(len, w) bytes of s.
FixedField(s, w) == Take(s, w) \o Rep(32, w - Min(Len(s), w))

RECURSIVE TrimEndZeros(_)
TrimEndZeros(s) ==
    IF Len(s) > 0 /\ s[Len(s)] = 48 THEN TrimEndZeros(SubSeq(s, 1, Len(s) - 1)) ELSE s

TrimEndDot(s) == IF Len(s) > 0 /\ s[Len(s)] = 46 THEN SubSeq(s, 1, Len(s) - 1) ELSE s

\* n as exactly w digits, with leading zeros.
ZeroPad(n, w) == LET d == Digits(n) IN Rep(48, w - Len(d)) \o d

\* format!("{:.7}", t as f64 / 1e7).trim_end_matches('0').trim_end_matches('.')
FmtTime7(t) ==
    TrimEndDot(TrimEndZeros(Digits(t \div EDFLIB_TIME_DIMENSION) \o <<46>>
                            \o ZeroPad(t % EDFLIB_TIME_DIMENSION, 7)))

\* format!("{:.6}", t as f64 / 1e7) with the same trimming: six decimals, rounded.
FmtTime6(t) ==
    LET q == (t + 5) \div 10
    IN  TrimEndDot(TrimEndZeros(Digits(q \div 1000000) \o <<46>> \o ZeroPad(q % 1000000, 6)))

\* Display of the f64 t / 1e7 (shortest decimal that reads back).
FmtSeconds(t) == FmtTime7(t)

\* to_ascii: every non-ASCII character becomes '_'.
to_ascii(s) == [i \in 1..Len(s) |-> IF s[i] < 128 THEN s[i] ELSE 95]

RECURSIVE Flatten(_)
Flatten(ss) == IF Len(ss) = 0 THEN <<>> ELSE Head(ss) \o Flatten(Tail(ss))

(***************************************************************************)
(* Sample codec (src/src/types.rs).  A SignalParam is a record with the    *)
(* fields of the struct; physical values are whole numbers.                *)
(***************************************************************************)
RECURSIVE GCD(_, _)
GCD(a, b) == IF b = 0 THEN a ELSE GCD(b, a % b)

Abs(a) == IF a < 0 THEN -a ELSE a

\* f64::round of the quotient a / b: to nearest, halves away from zero.
RoundDiv(a, b) ==
    LET n == IF b < 0 THEN -a ELSE a
        d == Abs(b)
    IN  IF n >= 0 THEN (2 * n + d) \div (2 * d) ELSE -((2 * (-n) + d) \div (2 * d))

\* to_digital: round(physical / bit_value - offset), with
\* bit_value = (physical_max - physical_min) / (digital_max - digital_min) and
\* offset = physical_max / bit_value - digital_max.
to_digital(sig, physical_value) ==
    LET pd == sig.physical_max - sig.physical_min
        dd == sig.digital_max - sig.digital_min
        g  == GCD(Abs(pd), Abs(dd))
        num == dd \div g
        den == pd \div g
    IN  RoundDiv((physical_value - sig.physical_max) * num + sig.digital_max * den, den)

\* The fraction n / d in lowest terms, with a positive denominator.
Frac(n, d) ==
    LET g == GCD(Abs(n), Abs(d))
    IN  IF d < 0 THEN [n |-> -(n \div g), d |-> -(d \div g)]
        ELSE [n |-> n \div g, d |-> d \div g]

\* Product, quotient, sum and difference of fractions (the factors are
\* reduced crosswise before they are multiplied).
FracMul(x, y) ==
    LET a == Frac(x.n, y.d)
        b == Frac(y.n, x.d)
    IN  Frac(a.n * b.n, a.d * b.d)

FracDiv(x, y) == FracMul(x, Frac(y.d, y.n))

FracAdd(x, y) == Frac(x.n * y.d + y.n * x.d, x.d * y.d)

FracSub(x, y) == FracAdd(x, [n |-> -y.n, d |-> y.d])

\* bit_value: (physical_max - physical_min) / (digital_max - digital_min)
bit_value(sig) ==
    Frac(sig.physical_max - sig.physical_min, sig.digital_max - sig.digital_min)

\* offset: physical_max / bit_value - digital_max
offset(sig) ==
    FracSub(FracDiv(Frac(sig.physical_max, 1), bit_value(sig)), Frac(sig.digital_max, 1))

\* A conversion that leaves the offset out.
to_physical_without_offset(sig, digital_value) ==
    FracMul(bit_value(sig), Frac(digital_value, 1))

\* to_physical: bit_value * (offset + digital_value)
to_physical(sig, digital_value) ==
    FracMul(bit_value(sig), FracAdd(offset(sig), Frac(digital_value, 1)))

\* to_digital of a physical value that is a fraction:
\* round(physical_value / bit_value - offset)
to_digital_of_fraction(sig, physical_value) ==
    LET digital == FracSub(FracDiv(physical_value, bit_value(sig)), offset(sig))
    IN  RoundDiv(digital.n, digital.d)

\* The two bytes of (v as i16).to_le_bytes().
I16LeBytes(v) == LET u == v % 65536 IN <<u % 256, u \div 256>>

\* One sample as write_samples stores it: converted, clamped, cut to 16 bits.
SampleBytes(sig, physical_value) ==
    I16LeBytes(Min(Max(to_digital(sig, physical_value), sig.digital_min), sig.digital_max))

(***************************************************************************)
(* HeaderCodec, write side (EdfWriter::write_header).                      *)
(***************************************************************************)
AnnotationLabel == <<69, 68, 70, 32, 65, 110, 110, 111, 116, 97, 116, 105, 111, 110, 115, 32>>

\* The SignalParam write_header creates for each annotation channel.
AnnotationSignal ==
    [label |-> AnnotationLabel, transducer |-> <<>>, physical_dimension |-> <<>>,
     prefilter |-> <<>>, physical_min |-> -1, physical_max |-> 1,
     digital_min |-> -32768, digital_max |-> 32767,
     samples_per_record |-> EDFLIB_ANNOTATION_BYTES \div 2]

\* The column-major signal block: each field for all signals, user signals first.
SignalHeaderBytes(all) ==
    LET Col(F(_)) == Flatten([i \in 1..Len(all) |-> F(all[i])])
        Label(s)  == FixedField(s.label, 16)
        Trans(s)  == FixedField(s.transducer, 80)
        Dim(s)    == FixedField(s.physical_dimension, 8)
        PMin(s)   == PadLeftAlign(DecStr(s.physical_min), 8)
        PMax(s)   == PadLeftAlign(DecStr(s.physical_max), 8)
        DMin(s)   == PadLeftAlign(DecStr(s.digital_min), 8)
        DMax(s)   == PadLeftAlign(DecStr(s.digital_max), 8)
        Pref(s)   == FixedField(s.prefilter, 80)
        Spr(s)    == PadLeftAlign(DecStr(s.samples_per_record), 8)
        Resv(s)   == Rep(32, 32)
    IN  Col(Label) \o Col(Trans) \o Col(Dim) \o Col(PMin) \o Col(PMax) \o Col(DMin)
        \o Col(DMax) \o Col(Pref) \o Col(Spr) \o Col(Resv)

\* "Startdate X -MMM-yyyy " followed by "Admin:X Tech:X Device:X" (no setter exists
\* for the three recording fields, which keep the value "X" given by create).
RecordingField ==
    FixedField(<<83, 116, 97, 114, 116, 100, 97, 116, 101, 32, 88, 32, 45, 77, 77, 77,
                 45, 121, 121, 121, 121, 32>>
               \o <<65, 100, 109, 105, 110, 58, 88>> \o <<32, 84, 101, 99, 104, 58, 88>>
               \o <<32, 68, 101, 118, 105, 99, 101, 58, 88>>, 80)

\* The patient field: the five sub-fields joined by spaces, cut to 80 bytes.
PatientField(code, sx, birth, name) ==
    FixedField(to_ascii(code) \o <<32>> \o to_ascii(sx) \o <<32>> \o to_ascii(birth)
               \o <<32>> \o to_ascii(name) \o <<32>> \o <<88>>, 80)

\* A record-count field left blank.
RecordCountFieldBlank(n) == Rep(32, 8)

\* The text of the record-count field: format!("{:<8}", n).
RecordCountField(n) == PadLeftAlign(DecStr(n), 8)

\* The text of the record-duration field; copy_from_slice panics unless it is 8 bytes.
DurationField(duration) == PadLeftAlign(FmtSeconds(duration), 8)

\* The 256-byte main header.
MainHeaderBytes(nsig, nchn, code, sx, birth, name, duration, total_datarecords) ==
    <<48, 32, 32, 32, 32, 32, 32, 32>>
    \o PatientField(code, sx, birth, name)
    \o RecordingField
    \o <<48, 49, 46, 48, 49, 46, 56, 53>>
    \o <<48, 48, 46, 48, 48, 46, 48, 48>>
    \o PadLeftAlign(DecStr((nsig + nchn + 1) * 256), 8)
    \o FixedField(<<69, 68, 70, 43, 67>>, 44)
    \o RecordCountField(total_datarecords)
    \o DurationField(duration)
    \o PadLeftAlign(DecStr(nsig + nchn), 4)

\* Everything write_header emits: main header, then the signal block.
HeaderBytes(sigs, nchn, code, sx, birth, name, duration, total_datarecords) ==
    MainHeaderBytes(Len(sigs), nchn, code, sx, birth, name, duration, total_datarecords)
    \o SignalHeaderBytes(sigs \o [c \in 1..nchn |-> AnnotationSignal])

\* write_header panics (copy_from_slice length mismatch) when the duration text
\* does not fit its 8 bytes.
HeaderPanics(duration) == Len(DurationField(duration)) # 8

(***************************************************************************)
(* TalEncoder (EdfWriter::generate_annotation_tal_for_channel).            *)
(* An Annotation is [onset, duration, description]; duration -1 = none.    *)
(***************************************************************************)
\* The timestamp unit that opens channel 0 of a record.
TalTimestamp(data_record_index, duration, subsecond) ==
    LET start == data_record_index * duration
    IN  <<43>>
        \o (IF data_record_index = 0 /\ subsecond > 0
              THEN FmtTime7(start + subsecond)
              ELSE IF start % EDFLIB_TIME_DIMENSION = 0
                     THEN DecStr(start \div EDFLIB_TIME_DIMENSION)
                     ELSE FmtTime6(start))
        \o <<20, 20, 0>>

\* A window check without the lower bound.
InRecordWindowNoStart(onset, data_record_index, duration) ==
    onset < (data_record_index + 1) * duration

\* annotation_time >= data_record_time_start && annotation_time < data_record_time_end
InRecordWindow(onset, data_record_index, duration) ==
    /\ onset >= data_record_index * duration
    /\ onset < (data_record_index + 1) * duration

\* A channel choice that lets channel 0 take every annotation.
TargetsChannelZeroTakesAll(annot_idx, nchn, channel_idx) ==
    channel_idx = 0 \/ annot_idx % nchn = channel_idx

\* The channel an annotation goes to: annot_idx (0-based) modulo the channel count.
TargetsChannel(annot_idx, nchn, channel_idx) ==
    IF nchn = 1 THEN channel_idx = 0 ELSE annot_idx % nchn = channel_idx

\* record_annotations: the (1-based) indices of the annotations of this slot, in order.
RecordAnnotations(anns, duration, nchn, data_record_index, channel_idx) ==
    SelectSeq([i \in 1..Len(anns) |-> i],
              LAMBDA i : /\ InRecordWindow(anns[i].onset, data_record_index, duration)
                         /\ TargetsChannel(i - 1, nchn, channel_idx))

\* The bytes an annotation needs without its description, as the code counts them.
MinNeededSpace(a) ==
    1 + Len(FmtTime7(a.onset)) + 2 + 1
    + (IF a.duration >= 0 THEN 1 + Len(FmtTime7(a.duration)) ELSE 0)

\* The block has room for the annotation's prefix and terminators.
HasRoom(tal_len, a) == ~(tal_len + MinNeededSpace(a) > EDFLIB_ANNOTATION_BYTES - 2)

\* "+<onset>[\x15<duration>]\x14"
AnnotationPrefix(a) ==
    <<43>> \o FmtTime7(a.onset)
    \o (IF a.duration >= 0 THEN <<21>> \o FmtTime7(a.duration) ELSE <<>>)
    \o <<20>>

\* The description bytes kept: at most 40, and at most what the block still holds.
\* A cut that leaves no room for the terminators after the description.
DescriptionKeptNoReserve(a, prefix_end) ==
    Take(a.description,
         Min(EDFLIB_WRITE_MAX_ANNOTATION_LEN, EDFLIB_ANNOTATION_BYTES - prefix_end))

\* A cut by the room in the block alone, without the 40-byte cap.
DescriptionKeptUncapped(a, prefix_end) ==
    Take(a.description, EDFLIB_ANNOTATION_BYTES - prefix_end - 2)

DescriptionKept(a, prefix_end) ==
    Take(a.description,
         Min(EDFLIB_WRITE_MAX_ANNOTATION_LEN, EDFLIB_ANNOTATION_BYTES - prefix_end - 2))

RECURSIVE AppendAnnotationsSkipping(_, _, _, _)
\* A loop that skips an annotation without room and goes on to the next.
AppendAnnotationsSkipping(anns, idxs, tal_data, enc) ==
    IF Len(idxs) = 0 THEN [bytes |-> tal_data, enc |-> enc]
    ELSE LET a == anns[Head(idxs)]
         IN  IF ~HasRoom(Len(tal_data), a)
               THEN AppendAnnotationsSkipping(anns, Tail(idxs), tal_data, enc)
             ELSE LET pre == tal_data \o AnnotationPrefix(a)
                  IN  AppendAnnotationsSkipping(anns, Tail(idxs),
                                                pre \o DescriptionKept(a, Len(pre)) \o <<20>>,
                                                Append(enc, Head(idxs)))

RECURSIVE AppendAnnotations(_, _, _, _)
\* The loop over record_annotations; it stops at the first one without room.
AppendAnnotations(anns, idxs, tal_data, enc) ==
    IF Len(idxs) = 0 THEN [bytes |-> tal_data, enc |-> enc]
    ELSE LET a == anns[Head(idxs)]
         IN  IF ~HasRoom(Len(tal_data), a) THEN [bytes |-> tal_data, enc |-> enc]
             ELSE LET pre == tal_data \o AnnotationPrefix(a)
                  IN  AppendAnnotations(anns, Tail(idxs),
                                        pre \o DescriptionKept(a, Len(pre)) \o <<20>>,
                                        Append(enc, Head(idxs)))

\* generate_annotation_tal_for_channel: the 120 bytes of one (record, channel) slot,
\* and (enc) the indices of the annotations the loop appended to it.
generate_annotation_tal_for_channel(anns, duration, subsecond, nchn, data_record_index, channel_idx) ==
    LET r == AppendAnnotations(
                 anns,
                 RecordAnnotations(anns, duration, nchn, data_record_index, channel_idx),
                 IF channel_idx = 0
                   THEN TalTimestamp(data_record_index, duration, subsecond) ELSE <<>>,
                 <<>>)
    IN  [bytes |-> r.bytes \o Rep(0, EDFLIB_ANNOTATION_BYTES - Len(r.bytes)),
         enc |-> r.enc]

(***************************************************************************)
(* The writer's operations.                                                *)
(***************************************************************************)
Init ==
    /\ signals = <<>>
    /\ datarecord_duration = EDFLIB_TIME_DIMENSION
    /\ samples_written = 0
    /\ header_written = FALSE
    /\ patient_code = <<88>>
    /\ sex = <<88>>
    /\ birthdate = <<88>>
    /\ patient_name = <<88>>
    /\ annotations = <<>>
    /\ starttime_subsecond = 0
    /\ nr_annot_chns = 1
    /\ file = <<>>
    /\ status = "open"
    /\ call = [op |-> "create", res |-> "Ok"]
    /\ header_flushes = 0
    /\ seeks = 0
    /\ encoded = {}
    /\ added = <<>>
    /\ tal_units = <<>>
    /\ readers = <<>>
    /\ reader = [opened |-> FALSE]
    /\ result = [op |-> "none"]

\* A call that returns Err(res) and touches nothing.
Rejected(op, res) ==
    /\ call' = [op |-> op, res |-> res]
    /\ UNCHANGED <<writer, file, status, header_flushes, seeks, encoded, added, reading>>

\* A call that returns Ok(()).
Returned(op) ==
    /\ call' = [op |-> op, res |-> "Ok"]
    /\ UNCHANGED reading

add_signal(signal) ==
    /\ status = "open"
    /\ IF header_written THEN Rejected("add_signal", "InvalidFormat")
       ELSE IF signal.physical_min = signal.physical_max
              THEN Rejected("add_signal", "PhysicalMinEqualsMax")
       ELSE IF signal.digital_min = signal.digital_max
              THEN Rejected("add_signal", "DigitalMinEqualsMax")
       ELSE /\ signals' = Append(signals, signal)
            /\ Returned("add_signal")
            /\ UNCHANGED <<datarecord_duration, samples_written, header_written,
                           patient_code, sex, birthdate, patient_name, annotations,
                           starttime_subsecond, nr_annot_chns, file, status,
                           header_flushes, seeks, encoded, added>>

set_patient_info(code, sx, birth, name) ==
    /\ status = "open"
    /\ IF header_written THEN Rejected("set_patient_info", "InvalidFormat")
       ELSE /\ patient_code' = code
            /\ sex' = sx
            /\ birthdate' = birth
            /\ patient_name' = name
            /\ Returned("set_patient_info")
            /\ UNCHANGED <<signals, datarecord_duration, samples_written, header_written,
                           annotations, starttime_subsecond, nr_annot_chns, file, status,
                           header_flushes, seeks, encoded, added>>

\* duration_seconds <= 0.0 || duration_seconds > 3600.0, for an argument of
\* ticks / 1e7 seconds.
DurationOutOfRange(ticks) ==
    \/ ticks <= 0
    \/ ticks \div EDFLIB_TIME_DIMENSION > MaxRecordDurationSeconds
    \/ /\ ticks \div EDFLIB_TIME_DIMENSION = MaxRecordDurationSeconds
       /\ ticks % EDFLIB_TIME_DIMENSION > 0

\* The argument is ticks / 1e7 seconds.
set_datarecord_duration(ticks) ==
    /\ status = "open"
    /\ IF header_written THEN Rejected("set_datarecord_duration", "InvalidFormat")
       ELSE IF DurationOutOfRange(ticks)
              THEN Rejected("set_datarecord_duration", "InvalidFormat")
       ELSE /\ datarecord_duration' = ticks
            /\ Returned("set_datarecord_duration")
            /\ UNCHANGED <<signals, samples_written, header_written, patient_code, sex,
                           birthdate, patient_name, annotations, starttime_subsecond,
                           nr_annot_chns, file, status, header_flushes, seeks, encoded, added>>

\* set_number_of_annotation_signals without the upper limit of 64 channels.
set_number_of_annotation_signals_no_maximum(annot_signals) ==
    /\ status = "open"
    /\ IF header_written THEN Rejected("set_number_of_annotation_signals", "InvalidFormat")
       ELSE IF annot_signals = 0
              THEN Rejected("set_number_of_annotation_signals", "InvalidFormat")
       ELSE /\ nr_annot_chns' = annot_signals
            /\ Returned("set_number_of_annotation_signals")
            /\ UNCHANGED <<signals, datarecord_duration, samples_written, header_written,
                           patient_code, sex, birthdate, patient_name, annotations,
                           starttime_subsecond, file, status, header_flushes, seeks,
                           encoded, added>>

set_number_of_annotation_signals(annot_signals) ==
    /\ status = "open"
    /\ IF header_written THEN Rejected("set_number_of_annotation_signals", "InvalidFormat")
       ELSE IF annot_signals = 0 \/ annot_signals > EDFLIB_MAX_ANNOTATION_CHANNELS
              THEN Rejected("set_number_of_annotation_signals", "InvalidFormat")
       ELSE /\ nr_annot_chns' = annot_signals
            /\ Returned("set_number_of_annotation_signals")
            /\ UNCHANGED <<signals, datarecord_duration, samples_written, header_written,
                           patient_code, sex, birthdate, patient_name, annotations,
                           starttime_subsecond, file, status, header_flushes, seeks,
                           encoded, added>>

\* set_subsecond_starttime without the header_written check.
set_subsecond_starttime_unlocked(subsecond) ==
    /\ status = "open"
    /\ IF subsecond < 0 \/ subsecond >= EDFLIB_TIME_DIMENSION
         THEN Rejected("set_subsecond_starttime", "InvalidFormat")
         ELSE /\ starttime_subsecond' = subsecond
              /\ Returned("set_subsecond_starttime")
              /\ UNCHANGED <<signals, datarecord_duration, samples_written, header_written,
                             patient_code, sex, birthdate, patient_name, annotations,
                             nr_annot_chns, file, status, header_flushes, seeks, encoded,
                             added>>

set_subsecond_starttime(subsecond) ==
    /\ status = "open"
    /\ IF header_written THEN Rejected("set_subsecond_starttime", "InvalidFormat")
       ELSE IF subsecond < 0 \/ subsecond >= EDFLIB_TIME_DIMENSION
              THEN Rejected("set_subsecond_starttime", "InvalidFormat")
       ELSE /\ starttime_subsecond' = subsecond
            /\ Returned("set_subsecond_starttime")
            /\ UNCHANGED <<signals, datarecord_duration, samples_written, header_written,
                           patient_code, sex, birthdate, patient_name, annotations,
                           nr_annot_chns, file, status, header_flushes, seeks, encoded, added>>

\* The arguments are in half ticks (onset_seconds = onset2 / 2e7), so that the
\* truncation of (seconds * 1e7) as i64 shows; duration2 = -1 stands for None.
\* An add_annotation call that fails: InvalidFormat with the message of the check.
RejectedAnnotation(msg) ==
    /\ call' = [op |-> "add_annotation", res |-> "InvalidFormat", msg |-> msg]
    /\ UNCHANGED <<writer, file, status, header_flushes, seeks, encoded, added, reading>>

\* add_annotation without the check of the description against 512 bytes.
add_annotation_any_length(onset2, duration2, description) ==
    /\ status = "open"
    /\ IF onset2 < 0 THEN RejectedAnnotation("onset cannot be negative")
       ELSE IF duration2 # -1 /\ duration2 < 0
              THEN RejectedAnnotation("duration cannot be negative")
       ELSE IF Len(description) = 0 THEN RejectedAnnotation("description cannot be empty")
       ELSE /\ annotations' = Append(annotations,
                                     [onset |-> onset2 \div 2,
                                      duration |-> IF duration2 = -1 THEN -1
                                                   ELSE duration2 \div 2,
                                      description |-> description])
            /\ added' = Append(added, [at |-> samples_written, onset2 |-> onset2,
                                        duration2 |-> duration2])
            /\ Returned("add_annotation")
            /\ UNCHANGED <<signals, datarecord_duration, samples_written, header_written,
                           patient_code, sex, birthdate, patient_name,
                           starttime_subsecond, nr_annot_chns, file, status,
                           header_flushes, seeks, encoded>>

add_annotation(onset2, duration2, description) ==
    /\ status = "open"
    /\ IF onset2 < 0 THEN RejectedAnnotation("onset cannot be negative")
       ELSE IF duration2 # -1 /\ duration2 < 0
              THEN RejectedAnnotation("duration cannot be negative")
       ELSE IF Len(description) = 0 THEN RejectedAnnotation("description cannot be empty")
       ELSE IF Len(description) > EDFLIB_MAX_ANNOTATION_LEN
              THEN RejectedAnnotation("description too long")
       ELSE /\ annotations' = Append(annotations,
                                     [onset |-> onset2 \div 2,
                                      duration |-> IF duration2 = -1 THEN -1
                                                   ELSE duration2 \div 2,
                                      description |-> description])
            /\ added' = Append(added, [at |-> samples_written, onset2 |-> onset2,
                                        duration2 |-> duration2])
            /\ Returned("add_annotation")
            /\ UNCHANGED <<signals, datarecord_duration, samples_written, header_written,
                           patient_code, sex, birthdate, patient_name,
                           starttime_subsecond, nr_annot_chns, file, status,
                           header_flushes, seeks, encoded>>

\* A count of the annotations that no record holds yet.
annotation_count_of_pending == Len(annotations) - Cardinality(encoded)

\* EdfWriter::annotation_count
annotation_count == Len(annotations)

\* The sample bytes of one record: every user signal's samples, in add_signal order.
RecordSampleBytes(sigs, samples) ==
    Flatten([i \in 1..Len(sigs) |->
                Flatten([j \in 1..Len(samples[i]) |-> SampleBytes(sigs[i], samples[i][j])])])

\* The TAL blocks of one record, channel 0 first.
RecordTalBytes(anns, duration, subsecond, nchn, data_record_index) ==
    Flatten([c \in 1..nchn |->
                generate_annotation_tal_for_channel(anns, duration, subsecond, nchn,
                                                    data_record_index, c - 1).bytes])

\* The annotations one record encodes, with their slot.
RecordEncoded(anns, duration, subsecond, nchn, data_record_index) ==
    UNION {{<<generate_annotation_tal_for_channel(anns, duration, subsecond, nchn,
                                                  data_record_index, c).enc[k],
              data_record_index, c>> :
              k \in 1..Len(generate_annotation_tal_for_channel(
                               anns, duration, subsecond, nchn, data_record_index, c).enc)} :
           c \in 0..(nchn - 1)}

\* A shape check that compares the outer length only.
ShapeMismatchOuterOnly(sigs, samples) == Len(samples) # Len(sigs)

\* samples.len() != signals.len(), or some inner length is not samples_per_record.
ShapeMismatch(sigs, samples) ==
    \/ Len(samples) # Len(sigs)
    \/ \E i \in 1..Len(samples) : Len(samples[i]) # sigs[i].samples_per_record

\* The placeholder record count write_samples passes to write_header.
PlaceholderRecords == 1

write_samples(samples) ==
    /\ status = "open"
    /\ IF ShapeMismatch(signals, samples) THEN Rejected("write_samples", "InvalidFormat")
       ELSE IF ~header_written /\ HeaderPanics(datarecord_duration)
              THEN /\ status' = "panicked"
                   /\ call' = [op |-> "write_samples", res |-> "panic"]
                   /\ UNCHANGED <<writer, file, header_flushes, seeks, encoded, added,
                                  reading>>
       ELSE /\ file' = file
                       \o (IF header_written THEN <<>>
                           ELSE HeaderBytes(signals, nr_annot_chns, patient_code, sex,
                                            birthdate, patient_name, datarecord_duration,
                                            PlaceholderRecords))
                       \o RecordSampleBytes(signals, samples)
                       \o RecordTalBytes(annotations, datarecord_duration,
                                         starttime_subsecond, nr_annot_chns, samples_written)
            /\ header_flushes' = IF header_written THEN header_flushes ELSE header_flushes + 1
            /\ header_written' = TRUE
            /\ encoded' = encoded \cup RecordEncoded(annotations, datarecord_duration,
                                                     starttime_subsecond, nr_annot_chns,
                                                     samples_written)
            /\ samples_written' = samples_written + 1
            /\ Returned("write_samples")
            /\ UNCHANGED <<signals, datarecord_duration, patient_code, sex, birthdate,
                           patient_name, annotations, starttime_subsecond, nr_annot_chns,
                           status, seeks, added>>

\* A write that lands one byte after the position sought.
WriteAtShifted(f, pos, bytes) ==
    [i \in 1..Max(Len(f), pos + 1 + Len(bytes)) |->
        IF i > pos + 1 /\ i <= pos + 1 + Len(bytes) THEN bytes[i - pos - 1]
        ELSE IF i <= Len(f) THEN f[i] ELSE 0]

\* file.seek(SeekFrom::Start(pos)) followed by write_all(bytes).
WriteAt(f, pos, bytes) ==
    [i \in 1..Max(Len(f), pos + Len(bytes)) |->
        IF i > pos /\ i <= pos + Len(bytes) THEN bytes[i - pos]
        ELSE IF i <= Len(f) THEN f[i] ELSE 0]

\* The offset of the record-count field in the main header.
RecordCountOffset == 236

finalize ==
    /\ status = "open"
    /\ status' = "finalized"
    /\ Returned("finalize")
    /\ IF header_written /\ samples_written > 1
         THEN /\ file' = WriteAt(file, RecordCountOffset, RecordCountField(samples_written))
              /\ seeks' = seeks + 1
         ELSE UNCHANGED <<file, seeks>>
    /\ UNCHANGED <<writer, header_flushes, encoded, added>>

(***************************************************************************)
(* Text parsing used by the reader (src/src/utils.rs and Rust's str        *)
(* methods).  Bytes below 128 stand for themselves.                        *)
(***************************************************************************)
IsSpace(b) == b = 32 \/ (b >= 9 /\ b <= 13)

IsDigit(b) == b >= 48 /\ b <= 57

RECURSIVE TrimStart(_)
TrimStart(s) == IF Len(s) > 0 /\ IsSpace(s[1]) THEN TrimStart(Tail(s)) ELSE s

RECURSIVE TrimEnd(_)
TrimEnd(s) ==
    IF Len(s) > 0 /\ IsSpace(s[Len(s)]) THEN TrimEnd(SubSeq(s, 1, Len(s) - 1)) ELSE s

\* str::trim
Trim(s) == TrimEnd(TrimStart(s))

AllDigits(s) == \A i \in 1..Len(s) : IsDigit(s[i])

RECURSIVE DigitsValue(_)
\* The number a string of digits denotes.
DigitsValue(s) ==
    IF Len(s) = 0 THEN 0 ELSE DigitsValue(SubSeq(s, 1, Len(s) - 1)) * 10 + (s[Len(s)] - 48)

\* str::parse::<i32>() / ::<i64>(): an optional sign, then one or more digits.
\* (Texts here are at most nine digits long, so no overflow arises.)
ParseInt(s) ==
    LET signed == Len(s) > 0 /\ (s[1] = 43 \/ s[1] = 45)
        body   == IF signed THEN Tail(s) ELSE s
    IN  IF Len(body) = 0 \/ ~AllDigits(body) \/ Len(body) > 9 THEN [ok |-> FALSE, v |-> 0]
        ELSE [ok |-> TRUE,
              v |-> IF signed /\ s[1] = 45 THEN -DigitsValue(body) ELSE DigitsValue(body)]

\* atoi_nonlocalized: trim, parse, 0 on failure.
atoi_nonlocalized(s) == LET r == ParseInt(Trim(s)) IN IF r.ok THEN r.v ELSE 0

\* The position of the first occurrence of byte b in s, or 0.
Find(s, b) ==
    IF \E i \in 1..Len(s) : s[i] = b
      THEN CHOOSE i \in 1..Len(s) : s[i] = b /\ \A j \in 1..(i - 1) : s[j] # b
      ELSE 0

\* A decimal text [+-]digits[.digits] (or .digits) as a number: its digits as an
\* integer mantissa and the count of fraction digits, normalised so that equal
\* numbers have equal representations.  Exponents, "inf" and "nan", which
\* str::parse::<f64>() also accepts, need letters and are treated as failures.
RECURSIVE Normalise(_, _)
Normalise(m, scale) ==
    IF m = 0 THEN [m |-> 0, scale |-> 0]
    ELSE IF scale > 0 /\ m % 10 = 0 THEN Normalise(m \div 10, scale - 1)
    ELSE [m |-> m, scale |-> scale]

ParseDecimal(s) ==
    LET signed == Len(s) > 0 /\ (s[1] = 43 \/ s[1] = 45)
        neg    == signed /\ s[1] = 45
        body   == IF signed THEN Tail(s) ELSE s
        dot    == Find(body, 46)
        ip     == IF dot = 0 THEN body ELSE SubSeq(body, 1, dot - 1)
        fp     == IF dot = 0 THEN <<>> ELSE SubSeq(body, dot + 1, Len(body))
    IN  IF Len(ip) + Len(fp) = 0 \/ ~AllDigits(ip) \/ ~AllDigits(fp)
           \/ Len(ip) + Len(fp) > 9
          THEN [ok |-> FALSE, m |-> 0, scale |-> 0]
          ELSE LET n == Normalise(DigitsValue(ip \o fp), Len(fp))
               IN  [ok |-> TRUE, m |-> IF neg THEN -n.m ELSE n.m, scale |-> n.scale]

\* atof_nonlocalized: trim, parse, 0.0 on failure.
atof_nonlocalized(s) ==
    LET r == ParseDecimal(Trim(s))
    IN  IF r.ok THEN [m |-> r.m, scale |-> r.scale] ELSE [m |-> 0, scale |-> 0]

RECURSIVE Pow10(_)
Pow10(k) == IF k = 0 THEN 1 ELSE 10 * Pow10(k - 1)

\* (text.parse::<f64>() * 1e7) as i64: the ticks a decimal text of seconds denotes,
\* cut towards zero.
ParseSecondsToTicks(s) ==
    LET r == ParseDecimal(s)
    IN  IF ~r.ok THEN [ok |-> FALSE, v |-> 0]
        ELSE [ok |-> TRUE,
              v |-> IF r.scale <= 7 THEN r.m * Pow10(7 - r.scale)
                    ELSE IF r.m >= 0 THEN r.m \div Pow10(r.scale - 7)
                    ELSE -((-r.m) \div Pow10(r.scale - 7))]

\* parse_edf_time: text of seconds to ticks, or an error.
parse_edf_time(raw) ==
    LET t    == Trim(raw)
        neg  == Len(t) > 0 /\ t[1] = 45
        s    == IF Len(t) > 0 /\ (t[1] = 45 \/ t[1] = 43) THEN Tail(t) ELSE t
        dot  == Find(s, 46)
        ip   == IF dot = 0 THEN s ELSE SubSeq(s, 1, dot - 1)
        dp   == IF dot = 0 THEN <<>> ELSE Take(SubSeq(s, dot + 1, Len(s)), 7)
        iv   == ParseInt(ip)
        dv   == ParseInt(dp)
        sgn(v) == IF neg THEN -v ELSE v
    IN  IF Len(t) = 0 THEN [ok |-> FALSE, v |-> 0]
        ELSE IF dot = 0
               THEN IF iv.ok THEN [ok |-> TRUE, v |-> sgn(iv.v * EDFLIB_TIME_DIMENSION)]
                    ELSE [ok |-> FALSE, v |-> 0]
        ELSE IF (Len(ip) > 0 /\ ~iv.ok) \/ (Len(dp) > 0 /\ ~dv.ok)
               THEN [ok |-> FALSE, v |-> 0]
        ELSE [ok |-> TRUE,
              v |-> sgn((IF Len(ip) > 0 THEN iv.v * EDFLIB_TIME_DIMENSION ELSE 0)
                        + (IF Len(dp) > 0 THEN dv.v * Pow10(7 - Len(dp)) ELSE 0))]

(***************************************************************************)
(* HeaderCodec, read side (EdfReader::parse_header, parse_signals).        *)
(* Slice(f, a, b) is the Rust slice f[a..b] (0-based, b exclusive).        *)
(***************************************************************************)
Slice(f, a, b) == SubSeq(f, a + 1, b)

RECURSIVE Split(_, _)
\* str::split(b): the parts between the occurrences of byte b.
Split(s, b) ==
    LET i == Find(s, b)
    IN  IF i = 0 THEN <<s>> ELSE <<SubSeq(s, 1, i - 1)>> \o Split(SubSeq(s, i + 1, Len(s)), b)

RECURSIVE split_whitespace(_)
\* str::split_whitespace: the words of s, none of them empty.
split_whitespace(s) ==
    LET t == TrimStart(s)
        stops == {i \in 1..Len(t) : IsSpace(t[i])}
        end == IF stops = {} THEN Len(t) + 1 ELSE CHOOSE i \in stops : \A j \in stops : i <= j
    IN  IF Len(t) = 0 THEN <<>>
        ELSE <<SubSeq(t, 1, end - 1)>> \o split_whitespace(SubSeq(t, end, Len(t)))

\* parse_edfplus_patient: the first four words of the patient field, "" for a
\* word that is not there.
parse_edfplus_patient(patient_field) ==
    LET parts == split_whitespace(patient_field)
        get(i) == IF i <= Len(parts) THEN parts[i] ELSE <<>>
    IN  [patient_code |-> get(1), sex |-> get(2), birthdate |-> get(3),
         patient_name |-> get(4)]

\* The patient sub-fields parse_header puts in the header it returns for the
\* bytes f.
HeaderPatient(f) == parse_edfplus_patient(Trim(Slice(f, 8, 88)))

DaysInMonth(year, month) ==
    IF month \in {4, 6, 9, 11} THEN 30
    ELSE IF month = 2
           THEN IF (year % 4 = 0 /\ year % 100 # 0) \/ year % 400 = 0 THEN 29 ELSE 28
    ELSE 31

\* parse_datetime succeeds: three parts each, a valid date and a valid time.
DatetimeOk(date_str, time_str) ==
    LET dp == Split(date_str, 46)
        tp == Split(time_str, 46)
    IN  /\ Len(dp) = 3
        /\ Len(tp) = 3
        /\ LET day   == atoi_nonlocalized(dp[1])
               month == atoi_nonlocalized(dp[2])
               yy    == atoi_nonlocalized(dp[3])
               year  == IF yy > 84 THEN 1900 + yy ELSE 2000 + yy
           IN  /\ month >= 1 /\ month <= 12
               /\ day >= 1 /\ day <= DaysInMonth(year, month)
        /\ atoi_nonlocalized(tp[1]) \in 0..23
        /\ atoi_nonlocalized(tp[2]) \in 0..59
        /\ atoi_nonlocalized(tp[3]) \in 0..59

\* The fields parse_signals reads for signal i (0-based) of n.
SignalFields(sh, n, i) ==
    [label_bytes        |-> Slice(sh, i * 16, i * 16 + 16),
     physical_min       |-> atof_nonlocalized(Slice(sh, n * 104 + i * 8, n * 104 + i * 8 + 8)),
     physical_max       |-> atof_nonlocalized(Slice(sh, n * 112 + i * 8, n * 112 + i * 8 + 8)),
     digital_min        |-> atoi_nonlocalized(Slice(sh, n * 120 + i * 8, n * 120 + i * 8 + 8)),
     digital_max        |-> atoi_nonlocalized(Slice(sh, n * 128 + i * 8, n * 128 + i * 8 + 8)),
     samples_per_record |-> atoi_nonlocalized(Slice(sh, n * 216 + i * 8, n * 216 + i * 8 + 8))]

RECURSIVE ParseSignalsFrom(_, _, _, _, _)
\* The loop of parse_signals from signal i on, with the running buffer_offset.
ParseSignalsFrom(sh, n, datarecords, i, buffer_offset) ==
    IF i = n THEN [err |-> "none", signals |-> <<>>, signal_info |-> <<>>,
                   record_size |-> buffer_offset]
    ELSE LET WithFields(f) ==
             LET is_annotation == f.label_bytes = AnnotationLabel
             IN
             IF ~is_annotation /\ f.physical_min = f.physical_max
               THEN [err |-> "PhysicalMinEqualsMax", signals |-> <<>>, signal_info |-> <<>>,
                     record_size |-> 0]
             ELSE IF ~is_annotation /\ f.digital_min = f.digital_max
               THEN [err |-> "DigitalMinEqualsMax", signals |-> <<>>, signal_info |-> <<>>,
                     record_size |-> 0]
             ELSE LET rest == ParseSignalsFrom(sh, n, datarecords, i + 1,
                                               buffer_offset + f.samples_per_record * 2)
                  IN  IF rest.err # "none" THEN rest
                      ELSE [err |-> "none",
                            signals |->
                                (IF is_annotation THEN <<>>
                                 ELSE <<[label |-> Trim(f.label_bytes),
                                         physical_min |-> f.physical_min,
                                         physical_max |-> f.physical_max,
                                         digital_min |-> f.digital_min,
                                         digital_max |-> f.digital_max,
                                         samples_per_record |-> f.samples_per_record,
                                         samples_in_file |->
                                             f.samples_per_record * datarecords]>>)
                                \o rest.signals,
                            signal_info |->
                                <<[buffer_offset |-> buffer_offset,
                                   samples_per_record |-> f.samples_per_record,
                                   is_annotation |-> is_annotation]>>
                                \o rest.signal_info,
                            record_size |-> rest.record_size]
         IN  WithFields(SignalFields(sh, n, i))

parse_signals(sh, n, datarecords) == ParseSignalsFrom(sh, n, datarecords, 0, 0)

HeaderError(kind) ==
    [err |-> kind, signals |-> <<>>, signal_info |-> <<>>, record_size |-> 0,
     header_size |-> 0, datarecords_in_file |-> 0, datarecord_duration |-> 0,
     file_duration |-> 0]

\* A check of the signal count that has no upper limit.
SignalCountBelowOne(total_signal_count) == total_signal_count < 1

\* total_signal_count < 1 || total_signal_count > EDFLIB_MAXSIGNALS
SignalCountOutOfRange(total_signal_count) ==
    total_signal_count < 1 \/ total_signal_count > EDFLIB_MAXSIGNALS

\* parse_header on the bytes f: the first failing check decides the error.
parse_header(f) ==
    IF Len(f) < 256 THEN HeaderError("Io")
    ELSE
    LET version == Trim(Slice(f, 0, 8))
        total_signal_count == atoi_nonlocalized(Slice(f, 252, 256))
        datarecords == atoi_nonlocalized(Slice(f, 236, 244))
        duration_str == Slice(f, 244, 252)
        duration == IF Trim(duration_str) = <<49>>
                      THEN [ok |-> TRUE, v |-> EDFLIB_TIME_DIMENSION]
                      ELSE parse_edf_time(duration_str)
    IN  IF Len(version) = 0 \/ version[1] # 48 THEN HeaderError("UnsupportedFileType")
        ELSE IF SignalCountOutOfRange(total_signal_count)
               THEN HeaderError("InvalidSignalCount")
        ELSE IF atoi_nonlocalized(Slice(f, 184, 192)) # (total_signal_count + 1) * 256
               THEN HeaderError("InvalidHeader")
        ELSE IF Slice(f, 192, 197) # <<69, 68, 70, 43, 67>>
               THEN HeaderError("UnsupportedFileType")
        ELSE IF ~DatetimeOk(Slice(f, 168, 176), Slice(f, 176, 184))
               THEN HeaderError("FormatError")
        ELSE IF ~duration.ok THEN HeaderError("InvalidFormat")
        ELSE IF Len(f) < 256 + total_signal_count * 256 THEN HeaderError("Io")
        ELSE LET WithSignals(ps) ==
                     IF ps.err # "none" THEN HeaderError(ps.err)
                     ELSE [err |-> "none", signals |-> ps.signals,
                           signal_info |-> ps.signal_info, record_size |-> ps.record_size,
                           header_size |-> (total_signal_count + 1) * 256,
                           datarecords_in_file |-> datarecords,
                           datarecord_duration |-> duration.v,
                           file_duration |-> duration.v * datarecords]
             IN  WithSignals(parse_signals(Slice(f, 256, 256 + total_signal_count * 256),
                                           total_signal_count, datarecords))

(***************************************************************************)
(* TalParser (EdfReader::parse_tal_data and its helpers).                  *)
(***************************************************************************)
\* At most one '.', everything else digits.
DigitsWithOneDot(s) ==
    /\ \A i \in 1..Len(s) : IsDigit(s[i]) \/ s[i] = 46
    /\ Cardinality({i \in 1..Len(s) : s[i] = 46}) <= 1

is_valid_onset(s) ==
    /\ Len(s) >= 2
    /\ s[1] = 43 \/ s[1] = 45
    /\ s[2] # 46
    /\ s[Len(s)] # 46
    /\ DigitsWithOneDot(Tail(s))

is_valid_duration(s) ==
    /\ Len(s) > 0
    /\ s[1] # 46
    /\ s[Len(s)] # 46
    /\ DigitsWithOneDot(s)

RECURSIVE TrimEndNul(_)
\* trim_end_matches('\0')
TrimEndNul(s) ==
    IF Len(s) > 0 /\ s[Len(s)] = 0 THEN TrimEndNul(SubSeq(s, 1, Len(s) - 1)) ELSE s

\* Copying the first n bytes of the scratchpad into a 32-byte text buffer and
\* terminating them: what lies behind the terminator stays.
CopyToText(buf, scratch, n) ==
    LET copy_len == Min(n, Len(buf) - 1)
    IN  [i \in 1..Len(buf) |->
            IF i <= copy_len THEN scratch[i] ELSE IF i = copy_len + 1 THEN 0 ELSE buf[i]]

\* An annotation for every closing 0x14, also when no description was collected.
EmittedAnnotationOfAnyDescription(st) ==
    LET onset_v == ParseSecondsToTicks(TrimEndNul(st.time_in_txt))
        dur_v   == ParseSecondsToTicks(TrimEndNul(st.duration_in_txt))
    IN  IF onset_v.ok
          THEN <<[onset |-> onset_v.v,
                  duration |-> IF st.duration /\ dur_v.ok THEN dur_v.v ELSE -1,
                  description |-> SubSeq(st.scratchpad, 1, st.n)]>>
          ELSE <<>>

\* The annotation (if any) a closing 0x14 yields from the texts collected.
EmittedAnnotation(st) ==
    LET onset_v == ParseSecondsToTicks(TrimEndNul(st.time_in_txt))
        dur_v   == ParseSecondsToTicks(TrimEndNul(st.duration_in_txt))
    IN  IF st.n > 0 /\ onset_v.ok
          THEN <<[onset |-> onset_v.v,
                  duration |-> IF st.duration /\ dur_v.ok THEN dur_v.v ELSE -1,
                  description |-> SubSeq(st.scratchpad, 1, st.n)]>>
          ELSE <<>>

TalInit ==
    [k |-> 0, onset |-> FALSE, duration |-> FALSE, duration_start |-> FALSE, n |-> 0,
     scratchpad |-> <<>>, time_in_txt |-> Rep(0, 32), duration_in_txt |-> Rep(0, 32),
     zero |-> 0, annots_in_tal |-> 0, annots_in_record |-> 0, out |-> <<>>,
     stop |-> FALSE]

Break(st) == [st EXCEPT !.stop = TRUE]

\* A parser that takes a 0x00 after any byte for the end of a TAL.
NulMisplacedNever(data, k) == FALSE

\* The 0x00 at data[k] (k counted from 0) does not follow a 0x14.
NulMisplaced(data, k) == k > 0 /\ data[k] # 20

\* A test that refuses a 0x15 only where a duration was begun or read.
DurationMisplacedOnlyTwice(st) == st.duration \/ st.duration_start

\* The test made at a 0x15: it is refused where the unit has a duration begun
\* or read, an onset closed, or a description closed.
DurationMisplaced(st) ==
    st.duration \/ st.duration_start \/ st.onset \/ st.annots_in_tal > 0

\* One iteration of the while loop of parse_tal_data, at byte data[st.k].
TalStep(data, st, record_idx, is_first_annotation_signal) ==
    LET byte == data[st.k + 1]
        live == [st EXCEPT !.zero = 0]
    IN
    IF byte = 0 THEN
        IF st.zero = 0
          THEN IF NulMisplaced(data, st.k) THEN Break(st)
               ELSE [st EXCEPT !.n = 0, !.onset = FALSE, !.duration = FALSE,
                               !.duration_start = FALSE, !.scratchpad = <<>>,
                               !.annots_in_tal = 0, !.zero = 1, !.k = st.k + 1]
          ELSE [st EXCEPT !.zero = st.zero + 1, !.k = st.k + 1]
    ELSE IF st.zero > 1 THEN Break(st)
    ELSE IF byte = 21 /\ DurationMisplaced(st) THEN Break(st)
    ELSE IF byte = 20 /\ st.onset /\ ~st.duration_start THEN
        [live EXCEPT
            !.out = IF is_first_annotation_signal /\ record_idx = 0
                       /\ st.annots_in_record = 0
                      THEN st.out
                    ELSE IF st.annots_in_record > 0 \/ ~is_first_annotation_signal
                      THEN st.out \o EmittedAnnotation(st)
                    ELSE st.out,
            !.annots_in_tal = st.annots_in_tal + 1,
            !.annots_in_record = st.annots_in_record + 1,
            !.n = 0, !.scratchpad = <<>>, !.k = st.k + 1]
    ELSE IF (byte = 20 \/ byte = 21) /\ ~st.onset THEN
        IF ~is_valid_onset(SubSeq(st.scratchpad, 1, st.n)) THEN Break(st)
        ELSE [live EXCEPT
                 !.duration_start = (st.duration_start \/ byte = 21),
                 !.time_in_txt = CopyToText(st.time_in_txt, st.scratchpad, st.n),
                 !.onset = TRUE, !.n = 0, !.scratchpad = <<>>, !.k = st.k + 1]
    ELSE IF byte = 20 /\ st.duration_start THEN
        IF ~is_valid_duration(SubSeq(st.scratchpad, 1, st.n)) THEN Break(st)
        ELSE [live EXCEPT
                 !.duration_in_txt = CopyToText(st.duration_in_txt, st.scratchpad, st.n),
                 !.duration = TRUE, !.duration_start = FALSE,
                 !.n = 0, !.scratchpad = <<>>, !.k = st.k + 1]
    ELSE IF byte = 43 /\ ~st.onset /\ st.n = 0 THEN [live EXCEPT !.k = st.k + 1]
    ELSE IF st.n < Len(data) + 16 - 1
      THEN [live EXCEPT !.scratchpad = Append(st.scratchpad, byte), !.n = st.n + 1,
                        !.k = st.k + 1]
    ELSE [live EXCEPT !.k = st.k + 1]

RECURSIVE TalRun(_, _, _, _, _)
\* The while loop of parse_tal_data from st on, for at most `steps` iterations.
\* An iteration moves k one byte on or breaks, so Len(data) - 1 iterations run
\* the loop to its end; the iterations are taken half by half.
TalRun(data, st, steps, record_idx, is_first_annotation_signal) ==
    IF steps = 0 \/ st.stop \/ ~(st.k < Len(data) - 1) THEN st
    ELSE IF steps = 1 THEN TalStep(data, st, record_idx, is_first_annotation_signal)
    ELSE TalRun(data,
                TalRun(data, st, steps \div 2, record_idx, is_first_annotation_signal),
                steps - steps \div 2, record_idx, is_first_annotation_signal)

\* parse_tal_data without the test of the block's last byte.
parse_tal_data_any_end(data, record_idx, is_first_annotation_signal) ==
    IF Len(data) = 0 THEN [ok |-> TRUE, annotations |-> <<>>]
    ELSE [ok |-> TRUE,
          annotations |-> TalRun(data, TalInit, Len(data) - 1, record_idx,
                                 is_first_annotation_signal).out]

\* parse_tal_data: Ok with the annotations of one block; none unless its last
\* byte is 0.  Every return of the function is an Ok.
parse_tal_data(data, record_idx, is_first_annotation_signal) ==
    IF Len(data) = 0 \/ data[Len(data)] # 0 THEN [ok |-> TRUE, annotations |-> <<>>]
    ELSE [ok |-> TRUE,
          annotations |-> TalRun(data, TalInit, Len(data) - 1, record_idx,
                                 is_first_annotation_signal).out]

(***************************************************************************)
(* RandomAccessReader: the annotation scan of open (parse_annotations).    *)
(***************************************************************************)
RECURSIVE TrimStartPlus(_)
\* trim_start_matches('+')
TrimStartPlus(s) == IF Len(s) > 0 /\ s[1] = 43 THEN TrimStartPlus(Tail(s)) ELSE s

\* extract_timestamp: the ticks of the text before the first 0x14 of the block, if
\* one comes before any 0x00 and the text is a number.
extract_timestamp(data) ==
    LET body == SubSeq(data, 1, Len(data) - 1)
        stops == {i \in 1..Len(body) : body[i] = 0 \/ body[i] = 20}
        first == CHOOSE i \in stops : \A j \in stops : i <= j
    IN  IF stops = {} THEN [some |-> FALSE, v |-> 0]
        ELSE IF body[first] = 0 THEN [some |-> FALSE, v |-> 0]
        ELSE LET r == ParseSecondsToTicks(TrimStartPlus(Take(SubSeq(body, 1, first - 1), 63)))
             IN  [some |-> r.ok, v |-> r.v]

\* The indices (into signal_info, 1-based) of the annotation signals.
AnnotationSignals(signal_info) ==
    SelectSeq([i \in 1..Len(signal_info) |-> i], LAMBDA i : signal_info[i].is_annotation)

\* Rust's %: the remainder has the sign of a.
Rem(a, b) == IF a >= 0 THEN a % b ELSE -((-a) % b)

RECURSIVE ScanSlots(_, _, _, _, _, _)
\* The loops of parse_annotations from (record_idx, ann_idx) on; acc carries
\* elapsed_time, header.starttime_subsecond and the annotations found.  An error
\* ends the scan.
ScanSlots(f, h, ann, record_idx, ann_idx, acc) ==
    IF record_idx >= h.datarecords_in_file THEN acc
    ELSE IF Len(f) < h.header_size + (record_idx + 1) * h.record_size
      THEN [acc EXCEPT !.err = "Io"]
    ELSE IF ann_idx >= Len(ann) THEN ScanSlots(f, h, ann, record_idx + 1, 0, acc)
    ELSE
    LET info   == h.signal_info[ann[ann_idx + 1]]
        nbytes == info.samples_per_record * 2
        start  == h.header_size + record_idx * h.record_size + info.buffer_offset
        Scanned(ts, found) ==
            LET late == /\ ann_idx = 0 /\ ts.some /\ record_idx > 0
                        /\ Abs(ts.v - (acc.elapsed_time + h.datarecord_duration))
                             > EDFLIB_TIME_DIMENSION \div 1000
            IN  IF late THEN [acc EXCEPT !.err = "InvalidHeader"]
                ELSE IF ~found.ok THEN [acc EXCEPT !.err = "InvalidFormat"]
                ELSE ScanSlots(f, h, ann, record_idx, ann_idx + 1,
                               [acc EXCEPT
                                   !.elapsed_time = IF ann_idx = 0 /\ ts.some THEN ts.v ELSE @,
                                   !.starttime_subsecond =
                                       IF ann_idx = 0 /\ ts.some /\ record_idx = 0 /\ @ = 0
                                         THEN Rem(ts.v, EDFLIB_TIME_DIMENSION) ELSE @,
                                   !.out = @ \o found.annotations])
        WithBlock(tal) ==
            Scanned(extract_timestamp(tal), parse_tal_data(tal, record_idx, ann_idx = 0))
    IN  IF ~(info.buffer_offset + nbytes <= h.record_size)
          THEN ScanSlots(f, h, ann, record_idx, ann_idx + 1, acc)
        ELSE WithBlock(Slice(f, start, start + nbytes))

RECURSIVE InsertByOnsetBeforeEqual(_, _)
\* An insertion that puts a before the entries of equal onset.
InsertByOnsetBeforeEqual(sorted, a) ==
    IF Len(sorted) = 0 THEN <<a>>
    ELSE IF sorted[Len(sorted)].onset < a.onset THEN Append(sorted, a)
    ELSE Append(InsertByOnsetBeforeEqual(SubSeq(sorted, 1, Len(sorted) - 1), a),
                sorted[Len(sorted)])

RECURSIVE InsertByOnset(_, _)
\* Insert a behind every entry whose onset is not greater (a stable sort).
InsertByOnset(sorted, a) ==
    IF Len(sorted) = 0 THEN <<a>>
    ELSE IF sorted[Len(sorted)].onset <= a.onset THEN Append(sorted, a)
    ELSE Append(InsertByOnset(SubSeq(sorted, 1, Len(sorted) - 1), a), sorted[Len(sorted)])

RECURSIVE SortByOnset(_)
\* sort_by(|a, b| a.onset.cmp(&b.onset))
SortByOnset(s) ==
    IF Len(s) = 0 THEN <<>>
    ELSE InsertByOnset(SortByOnset(SubSeq(s, 1, Len(s) - 1)), s[Len(s)])

\* parse_annotations for a parsed header h over the bytes f, with
\* header.starttime_subsecond as the scan leaves it.
parse_annotations(f, h) ==
    LET ann == AnnotationSignals(h.signal_info)
        Scanned(r) == [err |-> r.err, annotations |-> SortByOnset(r.out),
                       starttime_subsecond |-> r.starttime_subsecond]
    IN  IF Len(ann) = 0
          THEN [err |-> "none", annotations |-> <<>>,
                starttime_subsecond |-> h.starttime_subsecond]
        ELSE Scanned(ScanSlots(f, h, ann, 0, 0,
                               [err |-> "none", elapsed_time |-> 0,
                                starttime_subsecond |-> h.starttime_subsecond,
                                out |-> <<>>]))

\* One iteration of the loop of quick_parse_tal_for_count, at byte data[st.k]
\* (k counted from 0): a 0x00 ends the loop.
QuickStep(data, st) ==
    LET next == [st EXCEPT !.k = st.k + 1]
    IN  IF data[st.k + 1] = 0 THEN [st EXCEPT !.stop = TRUE]
        ELSE IF data[st.k + 1] # 20 THEN next
        ELSE IF ~st.in_description THEN [next EXCEPT !.in_description = TRUE]
        ELSE IF st.skip_first
          THEN [next EXCEPT !.in_description = FALSE, !.skip_first = FALSE]
        ELSE [next EXCEPT !.in_description = FALSE, !.count = st.count + 1]

RECURSIVE QuickCount(_, _, _)
\* The loop of quick_parse_tal_for_count from st on, for at most `steps`
\* iterations, taken half by half; Len(data) - 1 iterations run it to its end.
QuickCount(data, st, steps) ==
    IF steps = 0 \/ st.stop \/ ~(st.k < Len(data) - 1) THEN st
    ELSE IF steps = 1 THEN QuickStep(data, st)
    ELSE QuickCount(data, QuickCount(data, st, steps \div 2), steps - steps \div 2)

\* extract_subsecond_from_tal: the sub-second part of the text before the first
\* 0x14 of the block, 0 if a 0x00 comes first or the text is no number.
extract_subsecond_from_tal(data) ==
    LET ts == extract_timestamp(data)
    IN  IF ts.some THEN Rem(ts.v, EDFLIB_TIME_DIMENSION) ELSE 0

\* quick_parse_tal_for_count: how many descriptions the quick scan counts in a
\* block, and the sub-second start time if the block is of the first record.
quick_parse_tal_for_count(data, is_first_record) ==
    IF Len(data) = 0 \/ data[Len(data)] # 0 THEN [count |-> 0, subsecond |-> 0]
    ELSE [count |-> QuickCount(data, [k |-> 0, in_description |-> FALSE,
                                      skip_first |-> is_first_record, count |-> 0,
                                      stop |-> FALSE], Len(data) - 1).count,
          subsecond |-> IF is_first_record THEN extract_subsecond_from_tal(data) ELSE 0]

\* The quick scan looks at no more than this many data records.
RecordsToScan == 100

RECURSIVE CountSlots(_, _, _, _, _, _)
\* The loops of count_annotations_and_parse_subsecond from (record_idx, ann_idx) on.
CountSlots(f, h, ann, record_idx, ann_idx, acc) ==
    IF record_idx >= Min(h.datarecords_in_file, RecordsToScan) THEN acc
    ELSE IF Len(f) < h.header_size + (record_idx + 1) * h.record_size
      THEN [acc EXCEPT !.ok = FALSE]
    ELSE IF ann_idx >= Len(ann) THEN CountSlots(f, h, ann, record_idx + 1, 0, acc)
    ELSE
    LET info   == h.signal_info[ann[ann_idx + 1]]
        nbytes == info.samples_per_record * 2
        start  == h.header_size + record_idx * h.record_size + info.buffer_offset
        Counted(q) ==
            CountSlots(f, h, ann, record_idx, ann_idx + 1,
                       [acc EXCEPT
                           !.count = @ + q.count,
                           !.subsecond = IF record_idx = 0 /\ q.subsecond # 0
                                           THEN q.subsecond ELSE @])
    IN  IF ~(info.buffer_offset + nbytes <= h.record_size)
          THEN CountSlots(f, h, ann, record_idx, ann_idx + 1, acc)
        ELSE Counted(quick_parse_tal_for_count(Slice(f, start, start + nbytes),
                                               record_idx = 0))

\* count_annotations_and_parse_subsecond: Ok((count, subsecond)) or an Err.
count_annotations_and_parse_subsecond(f, h) ==
    LET ann == AnnotationSignals(h.signal_info)
    IN  IF Len(ann) = 0 THEN [ok |-> TRUE, count |-> 0, subsecond |-> 0]
        ELSE CountSlots(f, h, ann, 0, 0, [ok |-> TRUE, count |-> 0, subsecond |-> 0])

\* An open that hands the error of parse_annotations to its caller.
OpenScannedOrFailed(counted, a) ==
    [err |-> a.err,
     header |-> [counted EXCEPT !.starttime_subsecond = a.starttime_subsecond],
     annotations |-> IF a.err = "none" THEN a.annotations ELSE <<>>]

\* The end of open: the reader a got from parse_annotations over the header
\* counted; a failed annotation scan leaves the list empty.
OpenScanned(counted, a) ==
    [err |-> "none",
     header |-> [counted EXCEPT !.starttime_subsecond = a.starttime_subsecond],
     annotations |-> IF a.err = "none" THEN a.annotations ELSE <<>>]

\* open once the quick scan has returned c for the parsed header h: the scan
\* fills header.annotations_in_file and starttime_subsecond ((0, 0) if it fails;
\* parse_header has made the same scan with the same result).
OpenCounted(f, h, c) ==
    LET Scan(counted) == OpenScanned(counted, parse_annotations(f, counted))
    IN  Scan([annotations_in_file |-> IF c.ok THEN c.count ELSE 0,
              starttime_subsecond |-> IF c.ok THEN c.subsecond ELSE 0] @@ h)

\* open once parse_header has returned h.
OpenParsed(f, h) ==
    IF h.err # "none" THEN [err |-> h.err, header |-> h, annotations |-> <<>>]
    ELSE OpenCounted(f, h, count_annotations_and_parse_subsecond(f, h))

\* EdfReader::open on the bytes f: an error, or the header and annotations().
open(f) == OpenParsed(f, parse_header(f))

(***************************************************************************)
(* The reader's operations (EdfReader).                                    *)
(***************************************************************************)
\* EdfReader::open as a call: the client holds a reader if it returns Ok.
open_reader ==
    /\ LET Held(o) ==
               /\ reader' = IF o.err # "none" THEN [opened |-> FALSE]
                            ELSE [opened |-> TRUE, header |-> o.header,
                                  annotations |-> o.annotations,
                                  sample_positions |->
                                      [i \in 1..Len(o.header.signals) |-> 0]]
               /\ result' = [op |-> "open", res |-> o.err]
       IN  Held(open(file))
    /\ UNCHANGED <<writer, file, status, call, header_flushes, seeks, encoded, added,
                   tal_units, readers>>

\* i16::from_le_bytes
I16FromLe(b) == LET u == b[1] + 256 * b[2] IN IF u >= 32768 THEN u - 65536 ELSE u

\* The index into signal_info (from 1) of user signal number signal (from 0).
ActualSignalIdx(signal_info, signal) ==
    LET users == SelectSeq([i \in 1..Len(signal_info) |-> i],
                           LAMBDA i : ~signal_info[i].is_annotation)
    IN  IF signal < Len(users) THEN users[signal + 1] ELSE 1

\* A read that takes the count asked for, whatever is left in the file.
ActualCountUnclamped(count, samples_in_file, position) == count

\* actual_count: the count asked for, cut to the samples left behind the cursor.
ActualCount(count, samples_in_file, position) ==
    Min(count, Max(samples_in_file - position, 0))

\* A file offset that leaves out where the signal's samples start in a record.
FileOffsetOfFirstSignal(h, info, record_index, sample_in_record) ==
    h.header_size + record_index * h.record_size + sample_in_record * 2

\* file_offset: where sample sample_in_record of record record_index of the
\* signal with layout info lies.
FileOffset(h, info, record_index, sample_in_record) ==
    h.header_size + record_index * h.record_size + info.buffer_offset + sample_in_record * 2

\* A read that makes one pass of the loop only: it ends at the end of the
\* record the cursor is in.
ReadChunksOnePass(f, h, signal, actual_count, position, samples) ==
    IF Len(samples) >= actual_count THEN [res |-> "Ok", samples |-> samples,
                                          position |-> position]
    ELSE
    LET param == h.signals[signal + 1]
        info == h.signal_info[ActualSignalIdx(h.signal_info, signal)]
        record_index == position \div param.samples_per_record
        sample_in_record == position % param.samples_per_record
        file_offset == FileOffset(h, info, record_index, sample_in_record)
        samples_to_read == Min(actual_count - Len(samples),
                               param.samples_per_record - sample_in_record)
        value(j) == Min(Max(I16FromLe(Slice(f, file_offset + 2 * j, file_offset + 2 * j + 2)),
                            param.digital_min), param.digital_max)
    IN  IF Len(f) < file_offset + 2 * samples_to_read
          THEN [res |-> "Io", samples |-> <<>>, position |-> position]
        ELSE [res |-> "Ok", samples |-> [j \in 1..samples_to_read |-> value(j - 1)],
              position |-> position + samples_to_read]

RECURSIVE ReadChunks(_, _, _, _, _, _)
\* The while loop of read_digital_samples: one pass reads what is asked for
\* from the record the cursor is in, then moves the cursor.  read_exact fails
\* where the file ends before the sample.
ReadChunks(f, h, signal, actual_count, position, samples) ==
    IF Len(samples) >= actual_count THEN [res |-> "Ok", samples |-> samples,
                                          position |-> position]
    ELSE
    LET param == h.signals[signal + 1]
        info == h.signal_info[ActualSignalIdx(h.signal_info, signal)]
        record_index == position \div param.samples_per_record
        sample_in_record == position % param.samples_per_record
        file_offset == FileOffset(h, info, record_index, sample_in_record)
        samples_to_read == Min(actual_count - Len(samples),
                               param.samples_per_record - sample_in_record)
        value(j) == Min(Max(I16FromLe(Slice(f, file_offset + 2 * j, file_offset + 2 * j + 2)),
                            param.digital_min), param.digital_max)
    IN  IF Len(f) < file_offset + 2 * samples_to_read
          THEN [res |-> "Io", samples |-> <<>>, position |-> position]
        ELSE ReadChunks(f, h, signal, actual_count, position + samples_to_read,
                        samples \o [j \in 1..samples_to_read |-> value(j - 1)])

read_digital_samples(signal, count) ==
    /\ reader.opened
    /\ LET h == reader.header
           called == [op |-> "read_digital_samples", signal |-> signal, count |-> count]
       IN  IF signal >= Len(h.signals)
             THEN /\ result' = called @@ [res |-> "InvalidSignalIndex", samples |-> <<>>]
                  /\ UNCHANGED reader
           ELSE IF count = 0
             THEN /\ result' = called @@ [res |-> "Ok", samples |-> <<>>]
                  /\ UNCHANGED reader
           ELSE LET param == h.signals[signal + 1]
                    position == reader.sample_positions[signal + 1]
                    samples_in_file == param.samples_per_record * h.datarecords_in_file
                    actual_count == ActualCount(count, samples_in_file, position)
                    r == ReadChunks(file, h, signal, actual_count, position, <<>>)
                IN  /\ result' = called @@ [res |-> r.res, samples |-> r.samples]
                    /\ reader' = [reader EXCEPT !.sample_positions[signal + 1] = r.position]
    /\ UNCHANGED <<writer, file, status, call, header_flushes, seeks, encoded, added,
                   tal_units, readers>>

\* A signal of the reader's header as a SignalParam for the codec: its physical
\* limits, which the header holds as decimals, counted in units of 10^-scale.
HeaderSignalScaled(param, scale) ==
    [param EXCEPT
        !.physical_min = param.physical_min.m * Pow10(scale - param.physical_min.scale),
        !.physical_max = param.physical_max.m * Pow10(scale - param.physical_max.scale)]

\* signal_param.to_physical(d) for a signal of the reader's header.
HeaderToPhysical(param, d) ==
    LET scale == Max(param.physical_min.scale, param.physical_max.scale)
    IN  FracDiv(to_physical(HeaderSignalScaled(param, scale), d), Frac(Pow10(scale), 1))

\* EdfReader::read_physical_samples: read_digital_samples, then to_physical of
\* every code read.
read_physical_samples(signal, count) ==
    /\ reader.opened
    /\ LET h == reader.header
           called == [op |-> "read_physical_samples", signal |-> signal, count |-> count]
       IN  IF signal >= Len(h.signals)
             THEN /\ result' = called @@ [res |-> "InvalidSignalIndex", samples |-> <<>>]
                  /\ UNCHANGED reader
           ELSE IF count = 0
             THEN /\ result' = called @@ [res |-> "Ok", samples |-> <<>>]
                  /\ UNCHANGED reader
           ELSE LET param == h.signals[signal + 1]
                    position == reader.sample_positions[signal + 1]
                    samples_in_file == param.samples_per_record * h.datarecords_in_file
                    actual_count == ActualCount(count, samples_in_file, position)
                    Converted(r) ==
                        /\ result' = called @@
                               [res |-> r.res,
                                samples |-> [i \in 1..Len(r.samples) |->
                                                HeaderToPhysical(param, r.samples[i])]]
                        /\ reader' = [reader EXCEPT
                                         !.sample_positions[signal + 1] = r.position]
                IN  Converted(ReadChunks(file, h, signal, actual_count, position, <<>>))
    /\ UNCHANGED <<writer, file, status, call, header_flushes, seeks, encoded, added,
                   tal_units, readers>>

\* A seek that takes the position as it is given.
ClampPositionNever(position, max_position) == position

\* position.max(0).min(max_position)
ClampPosition(position, max_position) == Min(Max(position, 0), max_position)

\* EdfReader::seek: the cursor of the signal goes to the clamped position.
seek(signal, position) ==
    /\ reader.opened
    /\ LET h == reader.header
           called == [op |-> "seek", signal |-> signal, position |-> position]
       IN  IF signal >= Len(h.signals)
             THEN /\ result' = called @@ [res |-> "InvalidSignalIndex", value |-> 0]
                  /\ UNCHANGED reader
           ELSE LET param == h.signals[signal + 1]
                    max_position == param.samples_per_record * h.datarecords_in_file
                    new_position == ClampPosition(position, max_position)
                IN  /\ reader' = [reader EXCEPT !.sample_positions[signal + 1] = new_position]
                    /\ result' = called @@ [res |-> "Ok", value |-> new_position]
    /\ UNCHANGED <<writer, file, status, call, header_flushes, seeks, encoded, added,
                   tal_units, readers>>

\* EdfReader::tell
tell(signal) ==
    /\ reader.opened
    /\ result' = IF signal >= Len(reader.header.signals)
                   THEN [op |-> "tell", signal |-> signal, res |-> "InvalidSignalIndex",
                         value |-> 0]
                 ELSE [op |-> "tell", signal |-> signal, res |-> "Ok",
                       value |-> reader.sample_positions[signal + 1]]
    /\ UNCHANGED <<writer, file, status, call, header_flushes, seeks, encoded, added,
                   tal_units, readers, reader>>

\* A rewind that puts the cursor of every signal at 0.
rewind_all(signal) ==
    /\ reader.opened
    /\ IF signal >= Len(reader.header.signals)
         THEN /\ result' = [op |-> "rewind", signal |-> signal,
                            res |-> "InvalidSignalIndex"]
              /\ UNCHANGED reader
       ELSE /\ reader' = [reader EXCEPT
                             !.sample_positions = [i \in DOMAIN @ |-> 0]]
            /\ result' = [op |-> "rewind", signal |-> signal, res |-> "Ok"]
    /\ UNCHANGED <<writer, file, status, call, header_flushes, seeks, encoded, added,
                   tal_units, readers>>

\* EdfReader::rewind: seek(signal, 0), its position dropped.
rewind(signal) ==
    /\ reader.opened
    /\ IF signal >= Len(reader.header.signals)
         THEN /\ result' = [op |-> "rewind", signal |-> signal,
                            res |-> "InvalidSignalIndex"]
              /\ UNCHANGED reader
       ELSE /\ reader' = [reader EXCEPT
                             !.sample_positions[signal + 1] =
                                 ClampPosition(0, reader.header.signals[signal + 1]
                                                      .samples_per_record
                                                  * reader.header.datarecords_in_file)]
            /\ result' = [op |-> "rewind", signal |-> signal, res |-> "Ok"]
    /\ UNCHANGED <<writer, file, status, call, header_flushes, seeks, encoded, added,
                   tal_units, readers>>

(***************************************************************************)
(* The calls a client makes: small sets of arguments, valid and invalid.   *)
(***************************************************************************)
\* A signal with bit value 1 and one sample per record.
SigEEG ==
    [label |-> <<69, 69, 71>>, transducer |-> <<>>, physical_dimension |-> <<117, 86>>,
     prefilter |-> <<>>, physical_min |-> -32768, physical_max |-> 32767,
     digital_min |-> -32768, digital_max |-> 32767, samples_per_record |-> 1]

\* A signal whose physical minimum and maximum print as ten and nine characters;
\* two samples per record.
SigWide ==
    [label |-> <<69, 67, 71>>, transducer |-> <<>>, physical_dimension |-> <<117, 86>>,
     prefilter |-> <<>>, physical_min |-> -100000000, physical_max |-> 100000000,
     digital_min |-> 0, digital_max |-> 100, samples_per_record |-> 2]

SigPhysFlat == [SigEEG EXCEPT !.physical_min = 5, !.physical_max = 5]

SigDigFlat == [SigEEG EXCEPT !.digital_min = 7, !.digital_max = 7]

SignalChoices == {SigEEG, SigWide, SigPhysFlat, SigDigFlat}

\* "P1", "M", "X", "Jo <e-acute>"
PatientChoices == {<<(<<80, 49>>), (<<77>>), (<<88>>), (<<74, 111, 32, 233>>)>>}

\* 0 s (rejected), 0.5 s, and 0.1234567 s, whose text does not fit the header field.
DurationChoices == {0, 5000000, 1234567}

ChannelCountChoices == {0, 2, 65}

SubsecondChoices == {-1, 2500000}

SampleVecs == {<<5>>, <<40000, -7>>}

SampleChoices == UNION {[1..n -> SampleVecs] : n \in 0..MaxSignals}

\* <<onset in half ticks, duration in half ticks or -1, description>>
AnnotationChoices == {<<0, -1, <<65>> >>, <<-2, -1, <<65>> >>}

AddSignal == \E sig \in SignalChoices : Len(signals) < MaxSignals /\ add_signal(sig)

SetPatientInfo == \E p \in PatientChoices : set_patient_info(p[1], p[2], p[3], p[4])

SetDatarecordDuration == \E d \in DurationChoices : set_datarecord_duration(d)

SetNumberOfAnnotationSignals ==
    \E n \in ChannelCountChoices : set_number_of_annotation_signals(n)

SetSubsecondStarttime == \E t \in SubsecondChoices : set_subsecond_starttime(t)

AddAnnotation ==
    \E a \in AnnotationChoices :
        Len(annotations) < MaxAnnots /\ add_annotation(a[1], a[2], a[3])

WriteSamples == \E smp \in SampleChoices : samples_written < MaxRecords /\ write_samples(smp)

Finalize == finalize

Next ==
    \/ AddSignal
    \/ SetPatientInfo
    \/ SetDatarecordDuration
    \/ SetNumberOfAnnotationSignals
    \/ SetSubsecondStarttime
    \/ AddAnnotation
    \/ WriteSamples
    \/ Finalize

Spec == Init /\ [][Next]_vars

(***************************************************************************)
(* A second specification for the annotation claims: a writer with one     *)
(* signal whose record duration and annotation channel count are set,      *)
(* then any interleaving of add_annotation, write_samples and finalize,    *)
(* with annotations long enough to fill a 120-byte block.                  *)
(***************************************************************************)
\* onset 0.62345675 s, duration 0.1234567 s, 41 bytes of description
TalLong == <<12469135, 2469134, Rep(66, EDFLIB_WRITE_MAX_ANNOTATION_LEN + 1)>>

\* onset 0.4 s, no duration, 36 bytes of description
TalMid == <<8000000, -1, Rep(67, 36)>>

TalAnnotationChoices == {TalLong, TalMid}

\* 1 s and 0.5 s
TalDurationChoices == {EDFLIB_TIME_DIMENSION, 5000000}

TalChannelCountChoices == {1, 2}

\* The writer after create, add_signal(SigEEG), set_datarecord_duration(d) and
\* set_number_of_annotation_signals(n).
InitTal ==
    /\ signals = <<SigEEG>>
    /\ datarecord_duration \in TalDurationChoices
    /\ samples_written = 0
    /\ header_written = FALSE
    /\ patient_code = <<88>>
    /\ sex = <<88>>
    /\ birthdate = <<88>>
    /\ patient_name = <<88>>
    /\ annotations = <<>>
    /\ starttime_subsecond = 0
    /\ nr_annot_chns \in TalChannelCountChoices
    /\ file = <<>>
    /\ status = "open"
    /\ call = [op |-> "set_number_of_annotation_signals", res |-> "Ok"]
    /\ header_flushes = 0
    /\ seeks = 0
    /\ encoded = {}
    /\ added = <<>>
    /\ tal_units = <<>>
    /\ readers = <<>>
    /\ reader = [opened |-> FALSE]
    /\ result = [op |-> "none"]

AddAnnotationTal ==
    \E a \in TalAnnotationChoices :
        Len(annotations) < MaxAnnotsTal /\ add_annotation(a[1], a[2], a[3])

WriteSamplesTal == samples_written < MaxRecords /\ write_samples(<<(<<5>>)>>)

FinalizeTal == finalize

NextTal ==
    \/ AddAnnotationTal
    \/ WriteSamplesTal
    \/ FinalizeTal

SpecTal == InitTal /\ [][NextTal]_vars

(***************************************************************************)
(* The annotation queue: add_annotation with every kind of argument it     *)
(* refuses, in every state of the writer's life.                           *)
(***************************************************************************)
\* <<onset in half ticks, duration in half ticks or -1, description>>: two that
\* pass, a negative onset, a negative duration, an empty description and one of
\* 513 bytes.
AnnotationInputs ==
    {<<0, -1, <<65>> >>, <<3, 2, <<66>> >>, <<-2, -1, <<65>> >>, <<0, -4, <<65>> >>,
     <<0, -1, <<>> >>, <<0, 2, Rep(65, EDFLIB_MAX_ANNOTATION_LEN + 1)>>}

AddAnnotationAny ==
    \E a \in AnnotationInputs :
        add_annotation(a[1], a[2], a[3]) /\ Len(annotations') <= MaxAnnots + 1

NextAnn ==
    \/ AddSignal
    \/ AddAnnotationAny
    \/ WriteSamples
    \/ Finalize

SpecAnn == Init /\ [][NextAnn]_vars

(***************************************************************************)
(* The TAL parser as a function of the block: a block is put together from *)
(* well-formed and malformed pieces and handed to parse_tal_data.          *)
(***************************************************************************)
\* "-1" 0x14 "A" 0x14
UnitMinus == <<45, 49, 20, 65, 20>>

\* "-2.5" 0x15 "0.5" 0x14 "B" 0x14
UnitMinusDuration == <<45, 50, 46, 53, 21, 48, 46, 53, 20, 66, 20>>

\* "+2.5" 0x14 "C" 0x14: an onset as the writer formats it
UnitPlus == <<43, 50, 46, 53, 20, 67, 20>>

\* the 0x00 that ends a TAL
UnitNul == <<0>>

\* "X": a byte outside any unit
UnitStray == <<88>>

\* "-1." 0x14 "E" 0x14: an onset that ends with its dot
UnitBadOnset == <<45, 49, 46, 20, 69, 20>>

\* "-3" 0x15 ".5" 0x14 "F" 0x14: a duration that starts with its dot
UnitBadDuration == <<45, 51, 21, 46, 53, 20, 70, 20>>

TalUnitChoices ==
    {UnitMinus, UnitMinusDuration, UnitPlus, UnitNul, UnitStray, UnitBadOnset,
     UnitBadDuration}

MaxUnits == 4

\* How many 0x00 bytes pad the block: none leaves its last byte as it is.
TalPaddingChoices == {0, 2}

\* <<record_idx, is_first_annotation_signal>>
TalCallChoices == {<<0, TRUE>>, <<1, TRUE>>, <<0, FALSE>>}

TalData(units, pad) == Flatten(units) \o Rep(0, pad)

AppendUnit ==
    /\ Len(tal_units) < MaxUnits
    /\ \E u \in TalUnitChoices : tal_units' = Append(tal_units, u)
    /\ result' = [op |-> "none"]
    /\ UNCHANGED <<writer, file, status, call, header_flushes, seeks, encoded, added, reader,
                   readers>>

ParseTalData ==
    /\ \E c \in TalCallChoices, pad \in TalPaddingChoices :
           result' = [op |-> "parse_tal_data", data |-> TalData(tal_units, pad),
                      record_idx |-> c[1], is_first_annotation_signal |-> c[2],
                      res |-> parse_tal_data(TalData(tal_units, pad), c[1], c[2])]
    /\ UNCHANGED <<writer, file, status, call, header_flushes, seeks, encoded, added,
                   tal_units, readers, reader>>

NextParse ==
    \/ AppendUnit
    \/ ParseTalData

SpecParse == Init /\ [][NextParse]_vars

(***************************************************************************)
(* The annotation scan of open over files of another producer: one signal, *)
(* two annotation channels, records of one second.  Channel 0 of a record  *)
(* holds its timestamp, channel 1 holds TALs with onsets the parser reads. *)
(* A block of the finished file may be damaged before a client opens it.   *)
(***************************************************************************)
MaxScanRecords == 3

ScanChannels == 2

\* "-1" 0x14 "C" 0x14: the onset of UnitMinus with another description
UnitMinusOther == <<45, 49, 20, 67, 20>>

\* What channel 1 of a record holds: nothing, one TAL, or two TALs of equal onset.
ScanContentChoices ==
    {<<>>, UnitMinus, UnitMinusDuration, UnitMinusOther \o <<0>> \o UnitMinus}

\* What a damaged block holds: zeros only, or bytes without any delimiter.
DamageChoices == {Rep(0, EDFLIB_ANNOTATION_BYTES), Rep(88, EDFLIB_ANNOTATION_BYTES)}

ScanHeader ==
    HeaderBytes(<<SigEEG>>, ScanChannels, <<88>>, <<88>>, <<88>>, <<88>>,
                EDFLIB_TIME_DIMENSION, MaxScanRecords)

ScanRecordSize == 2 * SigEEG.samples_per_record + EDFLIB_ANNOTATION_BYTES * ScanChannels

\* The records the file holds so far.
ScanRecords == (Len(file) - Len(ScanHeader)) \div ScanRecordSize

\* A block of 120 bytes with the given content.
PaddedBlock(content) == content \o Rep(0, EDFLIB_ANNOTATION_BYTES - Len(content))

\* Where annotation channel c of record r starts in the file.
ScanBlockStart(r, c) ==
    Len(ScanHeader) + r * ScanRecordSize + 2 * SigEEG.samples_per_record
    + EDFLIB_ANNOTATION_BYTES * c

\* No writer of this program is at work (its fields are those of a new one);
\* the file holds the header the producer wrote.
InitScan ==
    /\ signals = <<>>
    /\ datarecord_duration = EDFLIB_TIME_DIMENSION
    /\ samples_written = 0
    /\ header_written = FALSE
    /\ patient_code = <<88>>
    /\ sex = <<88>>
    /\ birthdate = <<88>>
    /\ patient_name = <<88>>
    /\ annotations = <<>>
    /\ starttime_subsecond = 0
    /\ nr_annot_chns = 1
    /\ file = ScanHeader
    /\ status = "open"
    /\ call = [op |-> "create", res |-> "Ok"]
    /\ header_flushes = 0
    /\ seeks = 0
    /\ encoded = {}
    /\ added = <<>>
    /\ tal_units = <<>>
    /\ readers = <<>>
    /\ reader = [opened |-> FALSE]
    /\ result = [op |-> "none"]

\* The producer appends a record.
AppendRecord ==
    /\ ScanRecords < MaxScanRecords
    /\ result.op \in {"none", "append"}
    /\ \E content \in ScanContentChoices :
           file' = file \o RecordSampleBytes(<<SigEEG>>, <<(<<5>>)>>)
                        \o PaddedBlock(TalTimestamp(ScanRecords, EDFLIB_TIME_DIMENSION, 0))
                        \o PaddedBlock(content)
    /\ result' = [op |-> "append"]
    /\ UNCHANGED <<writer, status, call, header_flushes, seeks, encoded, added, tal_units, readers,
                   reader>>

\* One block of the finished file is overwritten.
DamageBlock ==
    /\ ScanRecords = MaxScanRecords
    /\ result.op = "append"
    /\ \E r \in 0..(MaxScanRecords - 1), c \in 0..(ScanChannels - 1), junk \in DamageChoices :
           /\ file' = WriteAt(file, ScanBlockStart(r, c), junk)
           /\ result' = [op |-> "damage", record_idx |-> r, channel |-> c]
    /\ UNCHANGED <<writer, status, call, header_flushes, seeks, encoded, added, tal_units, readers,
                   reader>>

\* EdfReader::open on the file as it is.
OpenFile ==
    /\ ScanRecords = MaxScanRecords
    /\ ~reader.opened
    /\ open_reader

NextScan ==
    \/ AppendRecord
    \/ DamageBlock
    \/ OpenFile

SpecScan == InitScan /\ [][NextScan]_vars

(***************************************************************************)
(* Reading samples back: the writer writes records of two signals (one and *)
(* two samples per record) and finalizes; a client opens the file and      *)
(* reads from either signal, little or much.                               *)
(***************************************************************************)
\* A second signal, with two samples per record.
SigPair == [SigEEG EXCEPT !.label = <<69, 77, 71>>, !.samples_per_record = 2]

\* The samples of record r: different in every record and signal.
RecordSamples(r) == <<(<<10 * r + 1>>), (<<10 * r + 2, 10 * r + 3>>)>>

\* Signal numbers a client asks for: the two there are, and one too many.
SignalIndexChoices == {0, 1, 2}

CountChoices == {0, 1, 3}

\* The writer after create, add_signal(SigEEG) and add_signal(SigPair).
InitRead ==
    /\ signals = <<SigEEG, SigPair>>
    /\ datarecord_duration = EDFLIB_TIME_DIMENSION
    /\ samples_written = 0
    /\ header_written = FALSE
    /\ patient_code = <<88>>
    /\ sex = <<88>>
    /\ birthdate = <<88>>
    /\ patient_name = <<88>>
    /\ annotations = <<>>
    /\ starttime_subsecond = 0
    /\ nr_annot_chns = 1
    /\ file = <<>>
    /\ status = "open"
    /\ call = [op |-> "add_signal", res |-> "Ok"]
    /\ header_flushes = 0
    /\ seeks = 0
    /\ encoded = {}
    /\ added = <<>>
    /\ tal_units = <<>>
    /\ readers = <<>>
    /\ reader = [opened |-> FALSE]
    /\ result = [op |-> "none"]

WriteSamplesRead ==
    samples_written < MaxRecords + 1 /\ write_samples(RecordSamples(samples_written))

FinalizeRead == finalize

\* The client opens the file once the writer is done with it.
OpenReader == status = "finalized" /\ ~reader.opened /\ open_reader

ReadDigitalSamples ==
    \E signal \in SignalIndexChoices, count \in CountChoices :
        read_digital_samples(signal, count)

NextRead ==
    \/ WriteSamplesRead
    \/ FinalizeRead
    \/ OpenReader
    \/ ReadDigitalSamples

SpecRead == InitRead /\ [][NextRead]_vars

(***************************************************************************)
(* Random access: the writer of SpecRead with samples inside and outside   *)
(* the physical range, then a reader that seeks, rewinds, tells and reads. *)
(***************************************************************************)
\* The samples of record r: different in every record and signal, one of them
\* above the physical maximum and one below the physical minimum.
SeekSamples(r) == <<(<<10 * r - 7>>), (<<40000 + r, -40000 - r>>)>>

\* Positions a client seeks to: before the start, inside, and behind the end of
\* the longest signal.
SeekPositionChoices == -1..(2 * (MaxRecords + 1) + 1)

WriteSamplesSeek ==
    samples_written < MaxRecords + 1 /\ write_samples(SeekSamples(samples_written))

Seek == \E signal \in SignalIndexChoices, position \in SeekPositionChoices :
            seek(signal, position)

Tell == \E signal \in SignalIndexChoices : tell(signal)

Rewind == \E signal \in SignalIndexChoices : rewind(signal)

\* A read of one sample or of two.
ReadAfterSeek == \E signal \in SignalIndexChoices, count \in {1, 2} :
                     read_digital_samples(signal, count)

\* A read of two physical values.
ReadPhysicalAfterSeek == \E signal \in SignalIndexChoices : read_physical_samples(signal, 2)

NextSeek ==
    \/ WriteSamplesSeek
    \/ FinalizeRead
    \/ OpenReader
    \/ Seek
    \/ Tell
    \/ Rewind
    \/ ReadAfterSeek
    \/ ReadPhysicalAfterSeek

SpecSeek == InitRead /\ [][NextSeek]_vars

(***************************************************************************)
(* open over a file whose header was damaged: a file of the writer with    *)
(* the signals of SpecRead, one annotation channel and one record, in      *)
(* which up to MaxDamage header fields are overwritten before the open.    *)
(***************************************************************************)
MaxDamage == 2

\* The signals the header describes, the annotation channel included.
DamagedFileSignals == 3

DamagedFile ==
    HeaderBytes(<<SigEEG, SigPair>>, 1, <<88>>, <<88>>, <<88>>, <<88>>,
                EDFLIB_TIME_DIMENSION, 1)
    \o RecordSampleBytes(<<SigEEG, SigPair>>, RecordSamples(0))
    \o RecordTalBytes(<<>>, EDFLIB_TIME_DIMENSION, 0, 1, 0)

\* Overwriting signal i's maximum field (at `max`) with its minimum field (at `min`).
MinOverMax(f, kind, i, min, max) ==
    [kind |-> kind, at |-> 256 + DamagedFileSignals * max + i * 8,
     bytes |-> Slice(f, 256 + DamagedFileSignals * min + i * 8,
                     256 + DamagedFileSignals * min + i * 8 + 8)]

\* The damages: a signal count of "0", "4097", "-1" or "abc"; a signal count
\* of "2", or a header size of "768" or "0", which does not fit the other; a
\* reserved field of "EDF+D" or of spaces; a signal, or the annotation
\* channel, whose physical or digital maximum is its minimum.
HeaderDamages(f) ==
    {[kind |-> "count", at |-> 252, bytes |-> b] :
        b \in {<<48, 32, 32, 32>>, <<52, 48, 57, 55>>, <<45, 49, 32, 32>>, <<97, 98, 99, 32>>}}
    \cup {[kind |-> "size", at |-> 252, bytes |-> <<50, 32, 32, 32>>],
          [kind |-> "size", at |-> 184, bytes |-> <<55, 54, 56, 32, 32, 32, 32, 32>>],
          [kind |-> "size", at |-> 184, bytes |-> <<48, 32, 32, 32, 32, 32, 32, 32>>]}
    \cup {[kind |-> "reserved", at |-> 192, bytes |-> b] :
             b \in {<<69, 68, 70, 43, 68>>, <<32, 32, 32, 32, 32>>}}
    \cup {MinOverMax(f, "physical0", 0, 104, 112), MinOverMax(f, "digital0", 0, 120, 128),
          MinOverMax(f, "physical1", 1, 104, 112), MinOverMax(f, "digital1", 1, 120, 128),
          MinOverMax(f, "physical_annotation", 2, 104, 112),
          MinOverMax(f, "digital_annotation", 2, 120, 128)}

\* No writer of this program is at work; the file is as the writer left it.
InitHeader ==
    /\ signals = <<SigEEG, SigPair>>
    /\ datarecord_duration = EDFLIB_TIME_DIMENSION
    /\ samples_written = 1
    /\ header_written = TRUE
    /\ patient_code = <<88>>
    /\ sex = <<88>>
    /\ birthdate = <<88>>
    /\ patient_name = <<88>>
    /\ annotations = <<>>
    /\ starttime_subsecond = 0
    /\ nr_annot_chns = 1
    /\ file = DamagedFile
    /\ status = "finalized"
    /\ call = [op |-> "finalize", res |-> "Ok"]
    /\ header_flushes = 1
    /\ seeks = 0
    /\ encoded = {}
    /\ added = <<>>
    /\ tal_units = <<>>
    /\ readers = <<>>
    /\ reader = [opened |-> FALSE]
    /\ result = [op |-> "damage", kinds |-> {}, fields |-> {}]

\* One more field of the header is overwritten: result keeps the kinds of
\* damage done and the fields they were done to.
DamageHeader ==
    /\ result.op = "damage"
    /\ Cardinality(result.fields) < MaxDamage
    /\ \E d \in HeaderDamages(file) :
           /\ d.at \notin result.fields
           /\ d.kind \notin result.kinds
           /\ file' = WriteAt(file, d.at, d.bytes)
           /\ result' = [result EXCEPT !.kinds = @ \cup {d.kind},
                                       !.fields = @ \cup {d.at}]
    /\ UNCHANGED <<writer, status, call, header_flushes, seeks, encoded, added, tal_units, readers,
                   reader>>

\* EdfReader::open on the file as it is.
OpenDamaged == result.op = "damage" /\ open_reader

NextHeader ==
    \/ DamageHeader
    \/ OpenDamaged

SpecHeader == InitHeader /\ [][NextHeader]_vars

(***************************************************************************)
(* The TAL parser on blocks of whole TALs: every TAL ends with its 0x00,   *)
(* some hold a unit with an empty description, some a 0x15 out of place.   *)
(***************************************************************************)
\* "-1" 0x14 "A" 0x14 0x00
TalPlain == <<45, 49, 20, 65, 20, 0>>

\* "-2" 0x14 0x14 0x00: a unit with an empty description
TalEmpty == <<45, 50, 20, 20, 0>>

\* "-3" 0x14 0x14 "B" 0x14 0x00: an empty description, then one of the same onset
TalEmptyThen == <<45, 51, 20, 20, 66, 20, 0>>

\* "-2.5" 0x15 "0.5" 0x14 "C" 0x14 0x00
TalWithDuration == <<45, 50, 46, 53, 21, 48, 46, 53, 20, 67, 20, 0>>

\* "-4" 0x14 "D" 0x14 "E" 0x15 "F" 0x14 0x00: a 0x15 behind a description
TalLate15 == <<45, 52, 20, 68, 20, 69, 21, 70, 20, 0>>

\* "-5" 0x15 "1" 0x15 "2" 0x14 "G" 0x14 0x00: a second 0x15
TalTwo15 == <<45, 53, 21, 49, 21, 50, 20, 71, 20, 0>>

\* "-6" 0x15 "1" 0x14 "H" 0x15 "2" 0x14 0x00: a 0x15 behind the duration
TalAgain15 == <<45, 54, 21, 49, 20, 72, 21, 50, 20, 0>>

TalChoices ==
    {TalPlain, TalEmpty, TalEmptyThen, TalWithDuration, TalLate15, TalTwo15, TalAgain15}

AppendTal ==
    /\ Len(tal_units) < MaxUnits
    /\ \E u \in TalChoices : tal_units' = Append(tal_units, u)
    /\ result' = [op |-> "none"]
    /\ UNCHANGED <<writer, file, status, call, header_flushes, seeks, encoded, added, reader,
                   readers>>

\* parse_tal_data on the block of the TALs collected.
ParseTals ==
    /\ \E c \in TalCallChoices :
           result' = [op |-> "parse_tal_data", data |-> Flatten(tal_units),
                      record_idx |-> c[1], is_first_annotation_signal |-> c[2],
                      res |-> parse_tal_data(Flatten(tal_units), c[1], c[2])]
    /\ UNCHANGED <<writer, file, status, call, header_flushes, seeks, encoded, added,
                   tal_units, readers, reader>>

NextUnit ==
    \/ AppendTal
    \/ ParseTals

SpecUnit == Init /\ [][NextUnit]_vars

(***************************************************************************)
(* Several readers of one finalized file.  Every reader is an EdfReader of *)
(* its own, with the file handle that its open call made; a read takes one *)
(* step per system call (seek, then read_exact per sample), so that the    *)
(* calls of different readers interleave inside a read.                    *)
(***************************************************************************)
MaxReaders == 2

ReaderIds == 1..MaxReaders

\* One handle that every reader uses.
HandleOfOneForAll(k) == 1

\* File::open in EdfReader::open: reader k reads through a handle of its own.
HandleOf(k) == k

\* The file of the writer of SpecSeek after two records and finalize.
SharedFile ==
    HeaderBytes(<<SigEEG, SigPair>>, 1, <<88>>, <<88>>, <<88>>, <<88>>,
                EDFLIB_TIME_DIMENSION, 2)
    \o RecordSampleBytes(<<SigEEG, SigPair>>, SeekSamples(0))
    \o RecordTalBytes(<<>>, EDFLIB_TIME_DIMENSION, 0, 1, 0)
    \o RecordSampleBytes(<<SigEEG, SigPair>>, SeekSamples(1))
    \o RecordTalBytes(<<>>, EDFLIB_TIME_DIMENSION, 0, 1, 1)

InitShare ==
    /\ signals = <<SigEEG, SigPair>>
    /\ datarecord_duration = EDFLIB_TIME_DIMENSION
    /\ samples_written = 2
    /\ header_written = TRUE
    /\ patient_code = <<88>>
    /\ sex = <<88>>
    /\ birthdate = <<88>>
    /\ patient_name = <<88>>
    /\ annotations = <<>>
    /\ starttime_subsecond = 0
    /\ nr_annot_chns = 1
    /\ file = SharedFile
    /\ status = "finalized"
    /\ call = [op |-> "finalize", res |-> "Ok"]
    /\ header_flushes = 2
    /\ seeks = 1
    /\ encoded = {}
    /\ added = <<>>
    /\ tal_units = <<>>
    /\ readers = [r |-> [k \in ReaderIds |-> [opened |-> FALSE]],
                  offsets |-> [k \in ReaderIds |-> 0]]
    /\ reader = [opened |-> FALSE]
    /\ result = [op |-> "none"]

\* What every step of a reader leaves alone.
ShareUnchanged ==
    UNCHANGED <<writer, file, status, call, header_flushes, seeks, encoded, added,
                tal_units, reader>>

\* EdfReader::open by reader k.
ShareOpen(k) ==
    /\ ~readers.r[k].opened
    /\ LET Held(o) ==
               /\ readers' = [readers EXCEPT
                      !.r[k] = IF o.err # "none" THEN [opened |-> FALSE]
                               ELSE [opened |-> TRUE, header |-> o.header,
                                     annotations |-> o.annotations,
                                     sample_positions |->
                                         [i \in 1..Len(o.header.signals) |-> 0],
                                     pc |-> "idle"]]
               /\ result' = [op |-> "open", reader |-> k, res |-> o.err]
       IN  Held(open(file))
    /\ ShareUnchanged

\* EdfReader::seek by reader k.
ShareSeek(k, signal, position) ==
    /\ readers.r[k].opened
    /\ readers.r[k].pc = "idle"
    /\ LET h == readers.r[k].header
           called == [op |-> "seek", reader |-> k, signal |-> signal,
                      position |-> position]
       IN  IF signal >= Len(h.signals)
             THEN /\ result' = called @@ [res |-> "InvalidSignalIndex", value |-> 0]
                  /\ UNCHANGED readers
           ELSE LET param == h.signals[signal + 1]
                    max_position == param.samples_per_record * h.datarecords_in_file
                    new_position == ClampPosition(position, max_position)
                IN  /\ readers' = [readers EXCEPT
                                      !.r[k].sample_positions[signal + 1] = new_position]
                    /\ result' = called @@ [res |-> "Ok", value |-> new_position]
    /\ ShareUnchanged

\* read_digital_samples by reader k, up to the loop: the checks and actual_count.
ShareReadBegin(k, signal, count) ==
    /\ readers.r[k].opened
    /\ readers.r[k].pc = "idle"
    /\ LET h == readers.r[k].header
           called == [op |-> "read_digital_samples", reader |-> k, signal |-> signal,
                      count |-> count]
       IN  IF signal >= Len(h.signals)
             THEN /\ result' = called @@ [res |-> "InvalidSignalIndex", samples |-> <<>>]
                  /\ UNCHANGED readers
           ELSE LET param == h.signals[signal + 1]
                    position == readers.r[k].sample_positions[signal + 1]
                    samples_in_file == param.samples_per_record * h.datarecords_in_file
                    actual_count == ActualCount(count, samples_in_file, position)
                IN  IF count = 0 \/ actual_count = 0
                      THEN /\ result' = called @@ [res |-> "Ok", samples |-> <<>>]
                           /\ UNCHANGED readers
                    ELSE /\ readers' = [readers EXCEPT !.r[k] =
                                [opened |-> TRUE, header |-> h,
                                 annotations |-> readers.r[k].annotations,
                                 sample_positions |-> readers.r[k].sample_positions,
                                 pc |-> "seek", signal |-> signal, count |-> count,
                                 actual_count |-> actual_count, start |-> position,
                                 samples |-> <<>>, samples_to_read |-> 0, chunk |-> 0]]
                         /\ UNCHANGED result
    /\ ShareUnchanged

\* The head of one pass of the loop: self.file.seek(SeekFrom::Start(file_offset))
ShareReadSeek(k) ==
    /\ readers.r[k].opened
    /\ readers.r[k].pc = "seek"
    /\ LET me == readers.r[k]
           h == me.header
           param == h.signals[me.signal + 1]
           info == h.signal_info[ActualSignalIdx(h.signal_info, me.signal)]
           current_pos == me.sample_positions[me.signal + 1]
           record_index == current_pos \div param.samples_per_record
           sample_in_record == current_pos % param.samples_per_record
           samples_to_read == Min(me.actual_count - Len(me.samples),
                                  param.samples_per_record - sample_in_record)
       IN  readers' = [readers EXCEPT
               !.offsets[HandleOf(k)] = FileOffset(h, info, record_index, sample_in_record),
               !.r[k].pc = "read",
               !.r[k].samples_to_read = samples_to_read,
               !.r[k].chunk = 0]
    /\ UNCHANGED result
    /\ ShareUnchanged

\* The reader as it is when the call returns.
ShareIdle(me) ==
    [opened |-> TRUE, header |-> me.header, annotations |-> me.annotations,
     sample_positions |-> me.sample_positions, pc |-> "idle"]

\* self.file.read_exact(&mut buf) for one sample, and what follows it: the
\* sample is clamped and pushed; after the last sample of the pass the cursor
\* moves, and after the last sample asked for the call returns.
ShareReadExact(k) ==
    /\ readers.r[k].opened
    /\ readers.r[k].pc = "read"
    /\ LET me == readers.r[k]
           param == me.header.signals[me.signal + 1]
           at == readers.offsets[HandleOf(k)]
           called == [op |-> "read_digital_samples", reader |-> k, signal |-> me.signal,
                      count |-> me.count]
           clamped_value == Min(Max(I16FromLe(Slice(file, at, at + 2)), param.digital_min),
                                param.digital_max)
           samples == Append(me.samples, clamped_value)
           moved == [me EXCEPT !.sample_positions[me.signal + 1] = @ + me.samples_to_read]
       IN  IF Len(file) < at + 2
             THEN /\ readers' = [readers EXCEPT !.r[k] = ShareIdle(me)]
                  /\ result' = called @@ [res |-> "Io", samples |-> <<>>, start |-> me.start]
           ELSE IF me.chunk + 1 < me.samples_to_read
             THEN /\ readers' = [readers EXCEPT !.offsets[HandleOf(k)] = at + 2,
                                                !.r[k].samples = samples,
                                                !.r[k].chunk = me.chunk + 1]
                  /\ UNCHANGED result
           ELSE IF Len(samples) < me.actual_count
             THEN /\ readers' = [readers EXCEPT !.offsets[HandleOf(k)] = at + 2,
                                                !.r[k] = [moved EXCEPT !.samples = samples,
                                                                       !.pc = "seek"]]
                  /\ UNCHANGED result
           ELSE /\ readers' = [readers EXCEPT !.offsets[HandleOf(k)] = at + 2,
                                              !.r[k] = ShareIdle(moved)]
                /\ result' = called @@ [res |-> "Ok", samples |-> samples, start |-> me.start]
    /\ ShareUnchanged

\* Positions the readers seek to on the signal of two samples a record: inside
\* the first record, and behind the end of the file.
SharePositionChoices == {1, 5}

OpenShared == \E k \in ReaderIds : ShareOpen(k)

SeekShared == \E k \in ReaderIds, position \in SharePositionChoices :
                  ShareSeek(k, 1, position)

\* A read of three samples, which crosses the record boundary from positions 0
\* and 1; a read of none; a read of a signal that is not there.
ReadBeginShared == \E k \in ReaderIds, call_of \in {<<1, 3>>, <<1, 0>>, <<2, 3>>} :
                       ShareReadBegin(k, call_of[1], call_of[2])

ReadSeekShared == \E k \in ReaderIds : ShareReadSeek(k)

ReadExactShared == \E k \in ReaderIds : ShareReadExact(k)

NextShare ==
    \/ OpenShared
    \/ SeekShared
    \/ ReadBeginShared
    \/ ReadSeekShared
    \/ ReadExactShared

SpecShare == InitShare /\ [][NextShare]_vars

(***************************************************************************)
(* The sample codec alone: a digital code is converted to its physical     *)
(* value and back, for signals of the full digital range.                  *)
(***************************************************************************)
\* How far the codes tried reach from the ends and from the middle of the
\* digital range.
MaxCodeSpan == 12

\* Physical ranges: one unit per code, ten units over the range, a range from
\* zero, a range below zero, and a range off centre.
CodecRangeChoices == {<<-32768, 32767>>, <<-5, 5>>, <<0, 1>>, <<-300, -100>>, <<-100, 13007>>}

CodecSignal(range) == [SigEEG EXCEPT !.physical_min = range[1], !.physical_max = range[2]]

CodecCodeChoices ==
    (-32768..(-32768 + MaxCodeSpan)) \cup ((-MaxCodeSpan)..MaxCodeSpan)
    \cup ((32767 - MaxCodeSpan)..32767)

\* signal.to_physical(digital_value)
ToPhysical ==
    /\ \E range \in CodecRangeChoices, digital_value \in CodecCodeChoices :
           result' = [op |-> "to_physical", signal |-> CodecSignal(range),
                      digital_value |-> digital_value,
                      physical |-> to_physical(CodecSignal(range), digital_value)]
    /\ UNCHANGED <<writer, file, status, call, header_flushes, seeks, encoded, added,
                   tal_units, readers, reader>>

\* signal.to_digital of the physical value just computed
ToDigital ==
    /\ result.op = "to_physical"
    /\ result' = [op |-> "to_digital", signal |-> result.signal,
                  digital_value |-> result.digital_value, physical |-> result.physical,
                  code |-> to_digital_of_fraction(result.signal, result.physical)]
    /\ UNCHANGED <<writer, file, status, call, header_flushes, seeks, encoded, added,
                   tal_units, readers, reader>>

NextCodec ==
    \/ ToPhysical
    \/ ToDigital

SpecCodec == Init /\ [][NextCodec]_vars

(***************************************************************************)
(* Claims about the writer's life cycle, checked under Spec.               *)
(***************************************************************************)
ConfigurationCalls ==
    {"add_signal", "set_patient_info", "set_datarecord_duration",
     "set_number_of_annotation_signals", "set_subsecond_starttime"}

\* Everything but the record of the last call.
Effects == <<writer, file, status, header_flushes, seeks, encoded, added>>

C1_LockedStep ==
    (header_flushes > 0 /\ call'.op \in ConfigurationCalls)
        => (call'.res = "InvalidFormat" /\ UNCHANGED Effects)

C1_AcceptedStep ==
    (header_flushes = 0 /\ call'.op \in ConfigurationCalls) =>
        /\ \A sig \in SignalChoices :
               (/\ add_signal(sig)
                /\ sig.physical_min # sig.physical_max
                /\ sig.digital_min # sig.digital_max)
                   => (call'.res = "Ok" /\ signals' = Append(signals, sig))
        /\ \A p \in PatientChoices :
               set_patient_info(p[1], p[2], p[3], p[4])
                   => (/\ call'.res = "Ok"
                       /\ <<patient_code', sex', birthdate', patient_name'>> = p)
        /\ \A d \in DurationChoices :
               (/\ set_datarecord_duration(d)
                /\ d > 0
                /\ d \div EDFLIB_TIME_DIMENSION < MaxRecordDurationSeconds)
                   => (call'.res = "Ok" /\ datarecord_duration' = d)
        /\ \A n \in ChannelCountChoices :
               (/\ set_number_of_annotation_signals(n)
                /\ n >= 1
                /\ n <= EDFLIB_MAX_ANNOTATION_CHANNELS)
                   => (call'.res = "Ok" /\ nr_annot_chns' = n)
        /\ \A t \in SubsecondChoices :
               (/\ set_subsecond_starttime(t)
                /\ t >= 0
                /\ t < EDFLIB_TIME_DIMENSION)
                   => (call'.res = "Ok" /\ starttime_subsecond' = t)

\* C1: once the first successful write_samples has flushed the header, every
\* add_signal, set_patient_info, set_datarecord_duration,
\* set_number_of_annotation_signals and set_subsecond_starttime call returns
\* InvalidFormat and changes neither the writer nor the file; before that, each
\* of these calls whose arguments pass its own checks returns Ok and stores them.
C1_SettersLockedAfterHeader == [][C1_LockedStep /\ C1_AcceptedStep]_vars

\* A configuration call is refused after the header went out.
C1_Witness ==
    /\ header_flushes = 1
    /\ call.op = "set_subsecond_starttime"
    /\ call.res = "InvalidFormat"

C2_BadShape(smp) ==
    \/ Len(smp) # Len(signals)
    \/ \E i \in 1..Min(Len(smp), Len(signals)) :
           Len(smp[i]) # signals[i].samples_per_record

\* C2: a write_samples call whose outer length is not the number of signals, or
\* one of whose inner vectors has not that signal's samples_per_record entries,
\* returns an error and changes nothing: no byte is written, the record counter
\* and header_written stay as they were.
C2_BadShapeHasNoEffect ==
    [][call'.op = "write_samples" =>
           \A smp \in SampleChoices :
               (C2_BadShape(smp) /\ write_samples(smp))
                   => (call'.res = "InvalidFormat" /\ UNCHANGED Effects)]_vars

\* A configuring writer with two signals refused a write, and nothing reached
\* the file.
C2_Witness ==
    /\ call = [op |-> "write_samples", res |-> "InvalidFormat"]
    /\ Len(signals) = 2
    /\ ~header_written
    /\ file = <<>>

\* "1" left-aligned in the eight bytes of the record-count field.
C3_PlaceholderField == <<49>> \o Rep(32, 7)

C3_State ==
    /\ header_flushes <= 1
    /\ (header_flushes = 1) = (samples_written >= 1)
    /\ samples_written = 0 => file = <<>>
    /\ (samples_written >= 1 /\ status # "finalized")
           => Slice(file, RecordCountOffset, RecordCountOffset + 8) = C3_PlaceholderField

C3_Step ==
    header_flushes' # header_flushes =>
        /\ call' = [op |-> "write_samples", res |-> "Ok"]
        /\ samples_written = 0 /\ samples_written' = 1
        /\ file = <<>>
        /\ Slice(file', 0, 8) = <<48>> \o Rep(32, 7)
        /\ Slice(file', RecordCountOffset, RecordCountOffset + 8) = C3_PlaceholderField
        /\ Len(file') > 256 * (Len(signals) + nr_annot_chns + 1)

\* C3: the header is written once, by the first successful write_samples call,
\* at the start of the file and so before that call's samples; it carries the
\* record count 1, and the field keeps that value through every later
\* write_samples call for as long as finalize has not run.
C3_HeaderOnceWithPlaceholder == [][C3_Step /\ C3_State']_vars

\* Two records are on disk and the field still says 1.
C3_Witness ==
    /\ samples_written = 2
    /\ status = "open"
    /\ header_flushes = 1
    /\ Slice(file, RecordCountOffset, RecordCountOffset + 8) = C3_PlaceholderField

C4_HeaderSize == (Len(signals) + nr_annot_chns + 1) * 256

C4_RecordSize ==
    LET RECURSIVE Sum(_)
        Sum(i) == IF i = 0 THEN 0 ELSE signals[i].samples_per_record * 2 + Sum(i - 1)
    IN  Sum(Len(signals)) + EDFLIB_ANNOTATION_BYTES * nr_annot_chns

\* C4: after k >= 1 successful write_samples calls the file holds exactly
\* header_size + k * record_size bytes, header_size = (user signals + annotation
\* channels + 1) * 256 and record_size = sum of samples_per_record * 2 over the
\* user signals + 120 * annotation channels, and the record counter is k.
C4_FileSize ==
    samples_written >= 1 =>
        Len(file) = C4_HeaderSize + samples_written * C4_RecordSize

\* C5: after finalize on a writer with n >= 1 records, bytes 236..243 of the
\* file hold n, and the reader's header has datarecords_in_file = n and
\* file_duration = n * datarecord_duration.
C5_FinalizedRecordCount ==
    (status = "finalized" /\ samples_written >= 1) =>
        /\ Slice(file, 236, 244) = PadLeftAlign(DecStr(samples_written), 8)
        /\ LET h == parse_header(file)
           IN  /\ h.err = "none"
               /\ h.datarecords_in_file = samples_written
               /\ h.file_duration = samples_written * datarecord_duration

\* C6 as stated: every finalize performs exactly one backward seek.
C6_FinalizeAlwaysSeeks == status = "finalized" => seeks = 1

C6_Step ==
    /\ call'.op = "finalize" =>
           /\ seeks' = seeks + (IF samples_written > 1 THEN 1 ELSE 0)
           /\ Len(file') = Len(file)
           /\ \A i \in 1..Len(file) : (i <= 236 \/ i > 244) => file'[i] = file[i]
    /\ call'.op # "finalize" =>
           /\ seeks' = seeks
           /\ \/ file' = file
              \/ /\ call'.op = "write_samples"
                 /\ Len(file') > Len(file)
                 /\ SubSeq(file', 1, Len(file)) = file

\* C6 amended: finalize performs one backward seek, to the record-count field,
\* when more than one record was written and none otherwise; no other call
\* seeks, write_samples only appends, and finalize changes no byte outside the
\* eight bytes of the record-count field.
C6_SeekOnlyToRewriteCount == [][C6_Step]_vars

\* finalize went back and the field now holds 2.
C6_Witness ==
    /\ status = "finalized"
    /\ seeks = 1
    /\ Slice(file, 236, 244) = <<50>> \o Rep(32, 7)

(***************************************************************************)
(* Claims about annotations, checked under SpecTal.                        *)
(***************************************************************************)
\* The record whose window holds annotation i: the r with
\* r * duration <= onset < (r + 1) * duration.
OnsetRecord(i) == annotations[i].onset \div datarecord_duration

\* Annotation i was added before the write_samples call that produced the record
\* covering its onset, and that record was written.
AddedInTime(i) == added[i].at <= OnsetRecord(i) /\ OnsetRecord(i) < samples_written

\* Annotation i came after its record was written, or lies at or beyond the end
\* of what was written.
MissedItsRecord(i) ==
    \/ annotations[i].onset < added[i].at * datarecord_duration
    \/ annotations[i].onset >= samples_written * datarecord_duration

EncodedIdx == {e[1] : e \in encoded}

\* The 120 bytes of annotation channel c of record r, read from the file.
Block(r, c) ==
    LET start == C4_HeaderSize + r * C4_RecordSize
                 + (C4_RecordSize - EDFLIB_ANNOTATION_BYTES * nr_annot_chns)
                 + EDFLIB_ANNOTATION_BYTES * c
    IN  Slice(file, start, start + EDFLIB_ANNOTATION_BYTES)

\* Where the units of a block start: the places of its '+' bytes.
PlusPositions(blk) == SelectSeq([i \in 1..Len(blk) |-> i], LAMBDA i : blk[i] = 43)

Slots == (0..(samples_written - 1)) \X (0..(nr_annot_chns - 1))

\* Every block of the file holds one unit per annotation encoded into its slot,
\* and the timestamp in channel 0.
BlocksHoldTheEncoded ==
    \A sl \in Slots :
        Len(PlusPositions(Block(sl[1], sl[2])))
            = Cardinality({e \in encoded : e[2] = sl[1] /\ e[3] = sl[2]})
              + (IF sl[2] = 0 THEN 1 ELSE 0)

ReaderAnnotations == open(file).annotations

\* Entry e of the reader's list is annotation i as it was added.
ReadBack(e, i) ==
    /\ Abs(2 * e.onset - added[i].onset2) <= 2
    /\ e.duration = (IF added[i].duration2 = -1 THEN -1 ELSE added[i].duration2 \div 2)
    /\ e.description = Take(annotations[i].description, EDFLIB_WRITE_MAX_ANNOTATION_LEN)

C9_AnnotationsRoundTrip ==
    status = "finalized" =>
        LET read == ReaderAnnotations
        IN  \A i \in 1..Len(annotations) :
                AddedInTime(i) => \E k \in 1..Len(read) : ReadBack(read[k], i)

\* The annotations of slot (r, c) that were there when record r was written, in
\* the order of their add_annotation calls.
Assigned(r, c) ==
    SelectSeq([i \in 1..Len(annotations) |-> i],
              LAMBDA i : /\ added[i].at <= r
                         /\ OnsetRecord(i) = r
                         /\ (i - 1) % nr_annot_chns = c)

\* The bytes of "+<onset>[\x15<duration>]\x14" for annotation i.
PrefixLen(i) ==
    1 + Len(FmtTime7(annotations[i].onset))
    + (IF annotations[i].duration >= 0
         THEN 1 + Len(FmtTime7(annotations[i].duration)) ELSE 0)
    + 1

\* The bytes of a block in use: up to its last unit, and the NUL that ends a
\* timestamp nothing follows.
UsedLen(blk, c, n) ==
    LET nz == {i \in 1..Len(blk) : blk[i] # 0}
        last == IF nz = {} THEN 0 ELSE CHOOSE i \in nz : \A j \in nz : j <= i
    IN  last + (IF c = 0 /\ n = 0 THEN 1 ELSE 0)

\* An annotation goes in when, after the bytes in use, the block has room for its
\* prefix, the two terminators and the two bytes the writer keeps free.
RoomFor(used, i) == used + PrefixLen(i) + 2 <= EDFLIB_ANNOTATION_BYTES - 2

C10_Slot(r, c) ==
    LET asg == Assigned(r, c)
        blk == Block(r, c)
        pp == PlusPositions(blk)
        off == IF c = 0 THEN 1 ELSE 0
        n == Cardinality({e \in encoded : e[2] = r /\ e[3] = c})
    IN  /\ n <= Len(asg)
        /\ {e[1] : e \in {x \in encoded : x[2] = r /\ x[3] = c}} = {asg[k] : k \in 1..n}
        /\ Len(pp) = n + off
        /\ \A k \in 1..n : RoomFor(pp[k + off] - 1, asg[k])
        /\ n < Len(asg) => ~RoomFor(UsedLen(blk, c, n), asg[n + 1])
        /\ \A k \in (n + 1)..Len(asg) : asg[k] \notin EncodedIdx

\* C10: in every slot the annotations encoded are the first ones assigned to it,
\* each had room for its prefix and terminators where it starts, and when some
\* are left out the first of them found too little room after the bytes in use;
\* it and all later ones of the slot are in no block of the file, and every
\* write_samples call returned Ok.
C10_NoRoomDropsTheRest ==
    /\ call.res = "Ok"
    /\ \A sl \in Slots : C10_Slot(sl[1], sl[2])

\* A slot that left out an annotation for lack of room, and a later, shorter one
\* with it.
C10_Witness ==
    /\ status = "finalized"
    /\ \E sl \in Slots :
           LET asg == Assigned(sl[1], sl[2])
               n == Cardinality({e \in encoded : e[2] = sl[1] /\ e[3] = sl[2]})
           IN  /\ n + 2 <= Len(asg)
               /\ PrefixLen(asg[n + 2]) < PrefixLen(asg[n + 1])
               /\ RoomFor(UsedLen(Block(sl[1], sl[2]), sl[2], n), asg[n + 2])

\* The last byte of a block that is not 0x00, or 0 for a block of zeros.
LastContent(blk) ==
    LET nz == {i \in 1..Len(blk) : blk[i] # 0}
    IN  IF nz = {} THEN 0 ELSE CHOOSE i \in nz : \A j \in nz : j <= i

\* What the encoder gives for the queue as it is now, for a record and a channel.
EncoderBlock(r, c) ==
    generate_annotation_tal_for_channel(annotations, datarecord_duration,
                                        starttime_subsecond, nr_annot_chns, r, c).bytes

\* C11: for every record index, every channel index and every queue of
\* annotations the encoder returns exactly 120 bytes whose last byte is 0x00 and
\* whose content ends with the 0x14 of its last unit (or is empty), all bytes
\* after it being 0x00; and every block of the file is 120 such bytes.
C11_BlockShape(blk) ==
    /\ Len(blk) = EDFLIB_ANNOTATION_BYTES
    /\ blk[EDFLIB_ANNOTATION_BYTES] = 0
    /\ LastContent(blk) < EDFLIB_ANNOTATION_BYTES
    /\ LastContent(blk) > 0 => blk[LastContent(blk)] = 20

C11_BlocksAre120BytesZeroPadded ==
    /\ \A r \in 0..MaxRecords : \A c \in 0..(nr_annot_chns - 1) :
           C11_BlockShape(EncoderBlock(r, c))
    /\ Len(file) = (IF header_written THEN C4_HeaderSize ELSE 0)
                   + samples_written * C4_RecordSize
    /\ \A sl \in Slots : C11_BlockShape(Block(sl[1], sl[2]))

\* A file with a block filled up to its 119th byte and a block of zeros only.
C11_Witness ==
    /\ status = "finalized"
    /\ \E sl \in Slots : LastContent(Block(sl[1], sl[2])) = EDFLIB_ANNOTATION_BYTES - 1
    /\ \E sl \in Slots : LastContent(Block(sl[1], sl[2])) = 0

\* Where in its block the description of an encoded annotation starts (the
\* bytes before it), found from the '+' that starts its unit.
DescriptionStart(e) ==
    LET blk == Block(e[2], e[3])
        rank == Cardinality({x \in encoded : x[2] = e[2] /\ x[3] = e[3] /\ x[1] <= e[1]})
        unit == PlusPositions(blk)[rank + (IF e[3] = 0 THEN 1 ELSE 0)]
    IN  unit - 1 + PrefixLen(e[1])

\* The description bytes of an encoded annotation: up to the next 0x14.
DescriptionInFile(e) ==
    LET blk == Block(e[2], e[3])
        from == DescriptionStart(e)
        ends == {j \in (from + 1)..Len(blk) : blk[j] = 20}
        end == IF ends = {} THEN Len(blk) + 1 ELSE CHOOSE j \in ends : \A k \in ends : j <= k
    IN  SubSeq(blk, from + 1, end - 1)

\* C12: the description in the file of every encoded annotation is the prefix
\* of the description given to add_annotation whose length is the least of the
\* description's length, 40, and the bytes left in the block after the unit's
\* prefix minus 2; it is never longer than 40 bytes.
C12_DescriptionCut ==
    \A e \in encoded :
        LET d == annotations[e[1]].description
            n == Min(Len(d), Min(EDFLIB_WRITE_MAX_ANNOTATION_LEN,
                                 EDFLIB_ANNOTATION_BYTES - DescriptionStart(e) - 2))
        IN  /\ DescriptionInFile(e) = Take(d, n)
            /\ Len(DescriptionInFile(e)) <= EDFLIB_WRITE_MAX_ANNOTATION_LEN

\* One description cut by the cap of 40, one cut by the room left in the block,
\* and one kept whole.
C12_Witness ==
    /\ \E e \in encoded : /\ Len(annotations[e[1]].description) > EDFLIB_WRITE_MAX_ANNOTATION_LEN
                          /\ Len(DescriptionInFile(e)) = EDFLIB_WRITE_MAX_ANNOTATION_LEN
    /\ \E e \in encoded : /\ Len(DescriptionInFile(e)) < EDFLIB_WRITE_MAX_ANNOTATION_LEN
                          /\ Len(DescriptionInFile(e)) < Len(annotations[e[1]].description)
    /\ \E e \in encoded : DescriptionInFile(e) = annotations[e[1]].description

\* The arguments add_annotation refuses.
C13_Invalid(a) ==
    \/ a[1] < 0
    \/ a[2] # -1 /\ a[2] < 0
    \/ Len(a[3]) = 0
    \/ Len(a[3]) > EDFLIB_MAX_ANNOTATION_LEN

\* C13: in every writer state add_annotation with a negative onset, a negative
\* duration, an empty description or a description longer than 512 bytes
\* returns InvalidFormat and leaves the annotation list and everything else
\* unchanged; the list only ever grows by an accepted annotation at its end.
C13_Step ==
    /\ \A a \in AnnotationInputs :
           (C13_Invalid(a) /\ add_annotation(a[1], a[2], a[3]))
               => (call'.res = "InvalidFormat" /\ UNCHANGED Effects)
    /\ annotations' # annotations =>
           /\ call' = [op |-> "add_annotation", res |-> "Ok"]
           /\ \E a \in AnnotationInputs :
                  /\ ~C13_Invalid(a)
                  /\ annotations' = Append(annotations,
                                           [onset |-> a[1] \div 2,
                                            duration |-> IF a[2] = -1 THEN -1 ELSE a[2] \div 2,
                                            description |-> a[3]])

C13_InvalidAnnotationsRejected == [][C13_Step]_vars

\* A description of 513 bytes refused after a record was written, with an
\* accepted annotation in the list.
C13_Witness ==
    /\ call = [op |-> "add_annotation", res |-> "InvalidFormat", msg |-> "description too long"]
    /\ samples_written > 0
    /\ Len(annotations) > 0

\* C19 as stated: for a finalized file of the writer (it has at most 100 data
\* records) the reader's header.annotations_in_file equals the number of
\* entries of annotations().
C19_CountEqualsListLength ==
    (status = "finalized" /\ open(file).err = "none" /\ samples_written <= RecordsToScan)
        => open(file).header.annotations_in_file = Len(open(file).annotations)

(***************************************************************************)
(* Claims about the TAL parser, checked under SpecParse.                   *)
(***************************************************************************)
Parsed == result.op = "parse_tal_data"

\* The parser was given a block that ends with 0x00, the only kind it reads.
ParsedTerminated ==
    Parsed /\ Len(result.data) > 0 /\ result.data[Len(result.data)] = 0

\* C14: parse_tal_data returns Ok for every block, and Ok with no annotation
\* for the empty block and for every block whose last byte is not 0x00.
C14_UnterminatedBlockYieldsNothing ==
    Parsed =>
        /\ result.res.ok
        /\ (Len(result.data) = 0 \/ result.data[Len(result.data)] # 0)
               => result.res.annotations = <<>>

\* A block of two units whose last byte is 0x14: with a 0x00 behind it the
\* parser finds an annotation in it.
C14_Witness ==
    /\ Parsed
    /\ Len(result.data) > 0
    /\ result.data[Len(result.data)] # 0
    /\ result.res = [ok |-> TRUE, annotations |-> <<>>]
    /\ parse_tal_data(result.data \o <<0>>, result.record_idx,
                      result.is_first_annotation_signal).annotations # <<>>

\* The places (from 1) of the 0x00 bytes of a block that do not follow a 0x14;
\* a 0x00 that is the first byte of the block is one of them.
NulsNotAfter14(data) ==
    {p \in 1..Len(data) : data[p] = 0 /\ (p = 1 \/ data[p - 1] # 20)}

\* The parser's result is what it had extracted from the bytes before place p.
StoppedAt(p) ==
    result.res.annotations
        = parse_tal_data(Take(result.data, p), result.record_idx,
                         result.is_first_annotation_signal).annotations

\* C15 as stated: in a block that ends with 0x00, at the first 0x00 that is not
\* immediately preceded by 0x14 the parser stops, and it returns what it had
\* extracted before that byte.
C15_StopsAtAnyNulNotAfter14 ==
    (ParsedTerminated /\ NulsNotAfter14(result.data) # {}) =>
        StoppedAt(CHOOSE p \in NulsNotAfter14(result.data) :
                      \A q \in NulsNotAfter14(result.data) : p <= q)

\* C15: in a block that ends with 0x00, at the first 0x00 that follows a byte
\* other than 0x14 the parser stops parsing the block and returns the
\* annotations it had extracted before that byte; a 0x00 that is the first
\* byte of the block is taken for the end of a TAL and parsing goes on behind it.
C15_StopsAtNulAfterOtherByte ==
    LET nuls == NulsNotAfter14(result.data) \ {1}
    IN  (ParsedTerminated /\ nuls # {}) => StoppedAt(CHOOSE p \in nuls : \A q \in nuls : p <= q)

\* A block with an annotation, then a stray byte and a 0x00, then a unit that
\* alone would be parsed: the first annotation is returned, the last is not.
C15_Witness ==
    /\ ParsedTerminated
    /\ \E p \in NulsNotAfter14(result.data) \ {1} :
           /\ result.data[p - 1] # 0
           /\ p < Len(result.data)
           /\ parse_tal_data(SubSeq(result.data, p + 1, Len(result.data)), 0,
                             FALSE).annotations # <<>>
           /\ result.res.annotations # <<>>

\* C17 as stated: a unit whose onset is written "+2.5" yields an annotation
\* with onset 25,000,000 ticks.
C17_PlusOnsetAccepted ==
    (Parsed /\ tal_units = <<UnitPlus>> /\ ~result.is_first_annotation_signal
            /\ Len(result.data) > Len(UnitPlus))
        => result.res.annotations
              = <<[onset |-> 25000000, duration |-> -1, description |-> <<67>>]>>

(***************************************************************************)
(* Claims about the annotation scan, checked under SpecScan.               *)
(***************************************************************************)
\* What parse_tal_data finds in annotation channel c of record r of the bytes f.
ScanBlockAnnotations(f, r, c) ==
    parse_tal_data(Slice(f, ScanBlockStart(r, c),
                         ScanBlockStart(r, c) + EDFLIB_ANNOTATION_BYTES), r, c = 0).annotations

InList(a, list) == \E i \in 1..Len(list) : list[i] = a

\* C16 as stated: when one block of a file is damaged, every annotation that
\* annotations() held and that comes from another block is still in
\* annotations() of the damaged file.
C16_Step ==
    (result'.op = "damage" /\ result.op # "damage") =>
        LET before == open(file).annotations
            after == open(file').annotations
        IN  \A r \in 0..(MaxScanRecords - 1), c \in 0..(ScanChannels - 1) :
                (<<r, c>> # <<result'.record_idx, result'.channel>>) =>
                    LET found == ScanBlockAnnotations(file, r, c)
                    IN  \A i \in 1..Len(found) :
                            InList(found[i], before) => InList(found[i], after)

C16_DamageStaysLocal == [][C16_Step]_vars

\* The annotations of the file in scan order: by record, then channel, then
\* place in the block.
ScanOrder ==
    Flatten([r \in 1..ScanRecords |->
                Flatten([c \in 1..ScanChannels |-> ScanBlockAnnotations(file, r - 1, c - 1)])])

WithOnset(list, v) == SelectSeq(list, LAMBDA a : a.onset = v)

\* C18: the list of annotations() is ascending by onset, and it holds the
\* annotations of every onset in the order the scan met them (record, then
\* channel, then place in the block).
C18_SortedByOnsetKeepingScanOrder ==
    reader.opened =>
        LET scanned == ScanOrder
        IN  /\ \A i \in 1..(Len(reader.annotations) - 1) :
                   reader.annotations[i].onset <= reader.annotations[i + 1].onset
            /\ reader.annotations # <<>> =>
                   \A i \in 1..Len(scanned) :
                       WithOnset(reader.annotations, scanned[i].onset)
                           = WithOnset(scanned, scanned[i].onset)

\* A list in which the scan order is not the onset order, and which holds two
\* annotations of equal onset and different description from different records.
C18_Witness ==
    /\ reader.opened
    /\ Len(reader.annotations) >= 4
    /\ LET scanned == ScanOrder
       IN  \E i, j \in 1..Len(scanned) : i < j /\ scanned[i].onset > scanned[j].onset
    /\ \E i \in 1..(Len(reader.annotations) - 1) :
           /\ reader.annotations[i].onset = reader.annotations[i + 1].onset
           /\ reader.annotations[i].description # reader.annotations[i + 1].description
    /\ Len(ScanBlockAnnotations(file, 0, 1)) = 1
    /\ Len(ScanBlockAnnotations(file, 1, 1)) = 1
    /\ Len(ScanBlockAnnotations(file, 2, 1)) = 2

(***************************************************************************)
(* Claims about reading samples, checked under SpecRead.                   *)
(***************************************************************************)
\* The samples of user signal number signal that the file holds, in file
\* order, as the writer stored them.
SamplesWritten(signal) ==
    Flatten([r \in 1..samples_written |->
                [j \in 1..signals[signal + 1].samples_per_record |->
                    RecordSamples(r - 1)[signal + 1][j]]])

\* C20: read_digital_samples(signal, count) on a valid signal index returns Ok
\* with exactly min(count, samples_in_file - cursor) samples (none when the
\* cursor is at the end), they are the samples of the file from the cursor on,
\* and the cursor of that signal, and of no other, moves on by their number.
C20_Step ==
    (result'.op = "read_digital_samples" /\ result'.signal < Len(signals)) =>
        LET position == reader.sample_positions[result'.signal + 1]
            in_file == SamplesWritten(result'.signal)
            n == Min(result'.count, Len(in_file) - position)
        IN  /\ result'.res = "Ok"
            /\ result'.samples = SubSeq(in_file, position + 1, position + n)
            /\ reader'.sample_positions
                   = [reader.sample_positions EXCEPT ![result'.signal + 1] = position + n]

RECURSIVE CumOffset(_)
\* The bytes the signals before signal s (counted from 0) take in a record.
CumOffset(s) ==
    IF s = 0 THEN 0 ELSE CumOffset(s - 1) + signals[s].samples_per_record * 2

\* The code write_samples stored for sample k of signal s: that of the j-th
\* sample of the r-th call.
WrittenCode(s, k) ==
    LET sig == signals[s + 1]
        r == k \div sig.samples_per_record
        j == k % sig.samples_per_record
    IN  Min(Max(to_digital(sig, SeekSamples(r)[s + 1][j + 1]), sig.digital_min),
            sig.digital_max)

\* Where the layout puts sample k of signal s.
LayoutOffset(s, k) ==
    LET spr == signals[s + 1].samples_per_record
    IN  (Len(signals) + nr_annot_chns + 1) * 256
        + (k \div spr) * (CumOffset(Len(signals)) + EDFLIB_ANNOTATION_BYTES * nr_annot_chns)
        + CumOffset(s) + (k % spr) * 2

\* C21: in a file the writer has finalized, read_digital_samples(s, 1) right
\* after an accepted seek(s, k) to a sample of the file returns the clamped
\* code of sample k mod spr of write_samples call k div spr, and the two bytes
\* at header_size + r * record_size + cum_offset(s) + j * 2 hold that code.
C21_Step ==
    (/\ result.op = "seek" /\ result.res = "Ok"
     /\ result'.op = "read_digital_samples" /\ result'.signal = result.signal
     /\ result'.count = 1
     /\ result.value < signals[result.signal + 1].samples_per_record * samples_written) =>
        LET s == result.signal
            k == result.value
            at == LayoutOffset(s, k)
        IN  /\ result'.res = "Ok"
            /\ result'.samples = <<WrittenCode(s, k)>>
            /\ Slice(file, at, at + 2) = I16LeBytes(WrittenCode(s, k))

C21_LayoutAndAddressingAgree == [][C21_Step]_vars

\* One sample read from the second record of the signal with two samples per
\* record: its second sample, below the physical minimum, comes back as the
\* digital minimum.
C21_Witness ==
    /\ result.op = "read_digital_samples"
    /\ result.signal = 1
    /\ result.count = 1
    /\ result.samples = <<-32768>>
    /\ reader.sample_positions[2] = 4

\* The samples signal s (counted from 0) has in the finalized file.
SamplesInFile(s) == signals[s + 1].samples_per_record * samples_written

\* C22: every cursor of an open reader lies in [0, samples_in_file]; seek(s, p)
\* puts the cursor of s at p clamped into that range, returns that value and
\* leaves the other cursors; rewind(s) puts it at 0; tell(s) returns it and
\* changes none.
C22_Step ==
    reader'.opened =>
        /\ \A s \in 0..(Len(signals) - 1) :
               reader'.sample_positions[s + 1] \in 0..SamplesInFile(s)
        /\ (result'.op = "seek" /\ result'.signal < Len(signals)) =>
               LET p == result'.position
                   clamped == IF p < 0 THEN 0
                              ELSE IF p > SamplesInFile(result'.signal)
                                     THEN SamplesInFile(result'.signal)
                              ELSE p
               IN  /\ result'.res = "Ok"
                   /\ result'.value = clamped
                   /\ reader'.sample_positions
                          = [reader.sample_positions EXCEPT ![result'.signal + 1] = clamped]
        /\ (result'.op = "rewind" /\ result'.signal < Len(signals)) =>
               /\ result'.res = "Ok"
               /\ reader'.sample_positions
                      = [reader.sample_positions EXCEPT ![result'.signal + 1] = 0]
        /\ (result'.op = "tell" /\ result'.signal < Len(signals)) =>
               /\ result'.res = "Ok"
               /\ result'.value = reader.sample_positions[result'.signal + 1]
               /\ reader' = reader

C22_CursorsStayInTheFile == [][C22_Step]_vars

\* A seek behind the end of a signal of two records that has put the cursor at
\* the end, while the cursor of the other signal is in the middle of the file.
C22_Witness ==
    /\ result.op = "seek"
    /\ result.signal = 0
    /\ samples_written = 2
    /\ result.position > SamplesInFile(0)
    /\ result.value = SamplesInFile(0)
    /\ reader.sample_positions = <<2, 3>>

(***************************************************************************)
(* Claims about open over a damaged header (specification SpecHeader).     *)
(***************************************************************************)
\* The error kind each damage stands for, in the order of the header's fields
\* and signals; a damage of the annotation channel stands for none.
DamageErrors ==
    <<[kind |-> "count", err |-> "InvalidSignalCount"],
      [kind |-> "size", err |-> "InvalidHeader"],
      [kind |-> "reserved", err |-> "UnsupportedFileType"],
      [kind |-> "physical0", err |-> "PhysicalMinEqualsMax"],
      [kind |-> "digital0", err |-> "DigitalMinEqualsMax"],
      [kind |-> "physical1", err |-> "PhysicalMinEqualsMax"],
      [kind |-> "digital1", err |-> "DigitalMinEqualsMax"]>>

\* The error of the first damage, in that order, among kinds; "none" if there
\* is none.
FirstDamageError(kinds) ==
    LET hit == {i \in 1..Len(DamageErrors) : DamageErrors[i].kind \in kinds}
    IN  IF hit = {} THEN "none"
        ELSE DamageErrors[CHOOSE i \in hit : \A j \in hit : i <= j].err

\* C23: open of a file whose header has a signal count outside [1, 4096], a
\* header-size field other than (signal count + 1) * 256, a reserved field not
\* starting with "EDF+C", or a signal (not the annotation channel) with equal
\* physical or equal digital limits returns InvalidSignalCount, InvalidHeader,
\* UnsupportedFileType, PhysicalMinEqualsMax or DigitalMinEqualsMax (the first
\* of them in the order of the fields where several defects meet) and yields
\* no reader; without such a defect it yields a reader.
C23_Step ==
    (result.op = "damage" /\ result'.op = "open") =>
        /\ result'.res = FirstDamageError(result.kinds)
        /\ reader'.opened = (FirstDamageError(result.kinds) = "none")

C23_InvalidHeaderRejected == [][C23_Step]_vars

\* An open refused for equal digital limits of the second signal, in a file
\* whose annotation channel has equal physical limits as well.
C23_Witness ==
    /\ result.op = "open"
    /\ result.res = "DigitalMinEqualsMax"
    /\ ~reader.opened
    /\ Slice(file, 256 + 3 * 120 + 8, 256 + 3 * 120 + 16)
         = Slice(file, 256 + 3 * 128 + 8, 256 + 3 * 128 + 16)
    /\ Slice(file, 256 + 3 * 104 + 16, 256 + 3 * 104 + 24)
         = Slice(file, 256 + 3 * 112 + 16, 256 + 3 * 112 + 24)

C26_Alone(k, me, alone) ==
    /\ result'.reader = k
    /\ result'.res = alone.res
    /\ result'.samples = alone.samples
    /\ readers'.r[k].sample_positions[me.signal + 1] = alone.position

C26_Step ==
    /\ file' = file
    /\ \A k \in ReaderIds :
           readers'.r[k] # readers.r[k] =>
               \A j \in ReaderIds \ {k} : readers'.r[j] = readers.r[j]
    /\ \A k \in ReaderIds :
           (readers.r[k].opened /\ readers.r[k].pc = "read" /\ readers'.r[k].pc = "idle") =>
               C26_Alone(k, readers.r[k], ReadChunks(file, readers.r[k].header,
                                                     readers.r[k].signal,
                                                     readers.r[k].actual_count,
                                                     readers.r[k].start, <<>>))

C26_ReadersAreIndependent == [][C26_Step]_vars

\* Reader 1 has read three samples from position 1, across the record
\* boundary, while reader 2 is inside a read of its own from position 0.
C26_Witness ==
    /\ result.op = "read_digital_samples"
    /\ result.reader = 1
    /\ result.res = "Ok"
    /\ result.samples = <<-32768, 32767, -32768>>
    /\ result.start = 1
    /\ readers.r[1].sample_positions[2] = 4
    /\ readers.r[2].opened
    /\ readers.r[2].pc = "read"
    /\ readers.r[2].start = 0
    /\ readers.r[2].samples = <<32767>>

(***************************************************************************)
(* Claims about the annotation list of a writer's file (SpecTal).          *)
(***************************************************************************)
\* C27 as stated: on the finalized file the reader's list has as many entries
\* as annotations were encoded, every encoded annotation has an entry with its
\* own onset (within one tick), and every entry's description is the
\* description of an encoded annotation, cut to 40 bytes.
C27_OneEntryPerEncoded ==
    status = "finalized" =>
        LET Listed(read) ==
                /\ Len(read) = Cardinality(encoded)
                /\ \A e \in encoded :
                       \E k \in 1..Len(read) :
                           Abs(2 * read[k].onset - added[e[1]].onset2) <= 2
                /\ \A k \in 1..Len(read) :
                       \E e \in encoded :
                           read[k].description
                               = Take(annotations[e[1]].description,
                                      EDFLIB_WRITE_MAX_ANNOTATION_LEN)
        IN  Listed(ReaderAnnotations)

(***************************************************************************)
(* Claims about the units of a block, checked under SpecUnit.              *)
(***************************************************************************)
\* What the TALs without a misplaced 0x15 hold: the length of the onset text
\* and, for every description closed by 0x14, the annotation of the unit.
TalHolds(tal) ==
    CASE tal = TalPlain ->
           [onset_len |-> 2,
            units |-> <<[onset |-> -10000000, duration |-> -1, description |-> <<65>>]>>]
      [] tal = TalEmpty ->
           [onset_len |-> 2,
            units |-> <<[onset |-> -20000000, duration |-> -1, description |-> <<>>]>>]
      [] tal = TalEmptyThen ->
           [onset_len |-> 2,
            units |-> <<[onset |-> -30000000, duration |-> -1, description |-> <<>>],
                        [onset |-> -30000000, duration |-> -1, description |-> <<66>>]>>]
      [] tal = TalWithDuration ->
           [onset_len |-> 4,
            units |-> <<[onset |-> -25000000, duration |-> 5000000,
                         description |-> <<67>>]>>]

TalsWellFormed == {TalPlain, TalEmpty, TalEmptyThen, TalWithDuration}

RECURSIVE UnitsOf(_, _)
\* The units of the TALs from place t on, each with the place of its TAL.
UnitsOf(tals, t) ==
    IF t > Len(tals) THEN <<>>
    ELSE [j \in 1..Len(TalHolds(tals[t]).units) |->
             [tal |-> t, unit |-> TalHolds(tals[t]).units[j]]]
         \o UnitsOf(tals, t + 1)

\* The onset text of TAL t is read as a number: no TAL before it in the block
\* left bytes of a longer onset text behind the terminator of this one.
OnsetReadable(tals, t) ==
    \A b \in 1..(t - 1) : TalHolds(tals[b]).onset_len < TalHolds(tals[t]).onset_len + 2

\* The annotations of the units at the places kept, in the order of the block.
UnitsKept(units, Keep(_)) ==
    LET places == SelectSeq([i \in 1..Len(units) |-> i], Keep)
    IN  [i \in 1..Len(places) |-> units[places[i]].unit]

ParsedWellFormed ==
    /\ Parsed
    /\ tal_units # <<>>
    /\ \A t \in 1..Len(tal_units) : tal_units[t] \in TalsWellFormed

TalStart(data, p) ==
    LET nuls == {q \in 1..(p - 1) : data[q] = 0}
    IN  IF nuls = {} THEN 1 ELSE 1 + CHOOSE q \in nuls : \A z \in nuls : z <= q

\* The places of the 0x15 bytes that do not end the onset token of their TAL:
\* a 0x14 or a 0x15 lies between the start of the TAL and the byte.
Misplaced15(data) ==
    {p \in 1..Len(data) :
        /\ data[p] = 21
        /\ \E q \in TalStart(data, p)..(p - 1) : data[q] = 20 \/ data[q] = 21}

\* The TALs before the first TAL with a misplaced 0x15.
TalsBefore15 ==
    {t \in 1..Len(tal_units) :
        \A b \in 1..t : tal_units[b] \in TalsWellFormed}

\* C29: a 0x15 that ends the onset token of a unit with no duration and no
\* description yet is accepted, and the unit is emitted with the duration that
\* follows; at the first 0x15 anywhere else (a second one in the unit, one
\* behind the 0x14 that closed the onset, one behind a description) the parser
\* stops, and returns what it had extracted from the bytes before it.
C29_Misplaced15Aborts ==
    (Parsed /\ tal_units # <<>>) =>
        /\ \A t \in TalsBefore15 :
               (tal_units[t] = TalWithDuration
                    /\ (t > 1 \/ ~result.is_first_annotation_signal))
                   => InList(TalHolds(TalWithDuration).units[1], result.res.annotations)
        /\ Misplaced15(result.data) # {} =>
               LET StoppedBefore(p) ==
                       result.res.annotations
                           = parse_tal_data(Take(result.data, p - 1) \o <<0>>,
                                            result.record_idx,
                                            result.is_first_annotation_signal).annotations
               IN  StoppedBefore(CHOOSE p \in Misplaced15(result.data) :
                                     \A q \in Misplaced15(result.data) : p <= q)

\* A plain TAL, a unit with a duration, a TAL with a second 0x15 and a plain
\* TAL again: the first two annotations are returned, the second with its
\* duration, and nothing behind the second 0x15 is read.
C29_Witness ==
    /\ Parsed
    /\ tal_units = <<TalPlain, TalWithDuration, TalTwo15, TalPlain>>
    /\ ~result.is_first_annotation_signal
    /\ result.res.annotations
           = <<[onset |-> -10000000, duration |-> -1, description |-> <<65>>],
               [onset |-> -25000000, duration |-> 5000000, description |-> <<67>>]>>

(***************************************************************************)
(* Claims about the start time read back, checked under SpecTal.           *)
(***************************************************************************)
\* C30 as stated: on a finalized file with at least one record the header's
\* starttime_subsecond is the subsecond start time of the writer, which the
\* timestamp marker of the first channel of record 0 carries, whatever user
\* annotations record 0 holds in any channel.
C30_SubsecondFromFirstMarker ==
    (status = "finalized" /\ samples_written >= 1) =>
        LET Read(o) == o.err = "none" /\ o.header.starttime_subsecond = starttime_subsecond
        IN  Read(open(file))

(***************************************************************************)
(* Claims about the cursors of one reader, checked under SpecSeek.         *)
(***************************************************************************)
\* A call on the open reader was made in this step: result' tells which.
ReaderCalled ==
    /\ reader.opened
    /\ reader'.opened
    /\ result'.op \in {"seek", "rewind", "read_digital_samples", "read_physical_samples"}

\* C31: seek, rewind, read_digital_samples and read_physical_samples on
\* signal s leave the cursor of every other signal as it was, and with a
\* signal index at or above the number of user signals they return
\* InvalidSignalIndex and change no cursor.
C31_Step ==
    ReaderCalled =>
        IF result'.signal >= Len(signals)
          THEN /\ result'.res = "InvalidSignalIndex"
               /\ reader'.sample_positions = reader.sample_positions
        ELSE \A s \in 0..(Len(signals) - 1) :
                 s # result'.signal =>
                     reader'.sample_positions[s + 1] = reader.sample_positions[s + 1]

C31_CursorsIndependent == [][C31_Step]_vars

\* Two physical values were read from signal 1 while the cursor of signal 0
\* stood at 1: it still does, and the cursor of signal 1 has moved.
C31_Witness ==
    /\ result.op = "read_physical_samples"
    /\ result.signal = 1
    /\ result.res = "Ok"
    /\ Len(result.samples) = 2
    /\ reader.opened
    /\ reader.sample_positions = <<1, 3>>

\* The clamped codes write_samples stored for the samples of signal s from
\* place `from` on, as many as `count` asks for and the file holds.
WrittenFrom(s, from, count) ==
    [i \in 1..Min(count, Max(SamplesInFile(s) - from, 0)) |-> WrittenCode(s, from + i - 1)]

\* C32: two reads of one signal in a row return, one after the other, the
\* samples that a single read of both counts returns from the cursor at which
\* the first began, and leave the cursor where that read leaves it, also
\* across record boundaries; and a read right after seek(s, p) or rewind(s)
\* returns the samples written from the clamped p (from 0) on, whatever came
\* before the seek.
C32_Step ==
    (reader.opened /\ result'.op = "read_digital_samples" /\ result'.signal < Len(signals)) =>
        /\ (result.op = "read_digital_samples" /\ result.signal = result'.signal
                /\ result.res = "Ok") =>
               LET s == result.signal
                   InOne(one) ==
                       /\ result'.res = "Ok"
                       /\ result.samples \o result'.samples = one.samples
                       /\ reader'.sample_positions[s + 1] = one.position
                   From(start) ==
                       InOne(ReadChunks(file, reader.header, s,
                                        ActualCount(result.count + result'.count,
                                                    SamplesInFile(s), start),
                                        start, <<>>))
               IN  From(reader.sample_positions[s + 1] - Len(result.samples))
        /\ (result.op = "seek" /\ result.signal = result'.signal /\ result.res = "Ok") =>
               result'.samples = WrittenFrom(result.signal, result.value, result'.count)
        /\ (result.op = "rewind" /\ result.signal = result'.signal /\ result.res = "Ok") =>
               result'.samples = WrittenFrom(result.signal, 0, result'.count)

C32_ReadsCompose == [][C32_Step]_vars

\* A read of two samples of the signal with one sample a record that began
\* in the second record and went into the third.
C32_Witness ==
    /\ result.op = "read_digital_samples"
    /\ result.signal = 0
    /\ result.count = 2
    /\ result.samples = <<3, 13>>
    /\ reader.opened
    /\ reader.sample_positions[1] = 3

(***************************************************************************)
(* Claims about the writer's annotation count, checked under SpecTal.      *)
(***************************************************************************)
\* C33: annotation_count() goes up by one with every add_annotation call that
\* returns Ok and is changed by no other call, write_samples and finalize
\* included: it is the number of accepted add_annotation calls since create,
\* whether their annotations were encoded, left out for lack of room or came
\* after their record was written.
C33_Step ==
    /\ annotation_count' = annotation_count
                           + (IF call'.op = "add_annotation" /\ call'.res = "Ok"
                                THEN 1 ELSE 0)
    /\ annotation_count' = Len(added')

C33_CountOfAcceptedCalls == [][C33_Step]_vars

\* A finalized file: one annotation is in a block, one was left out of the
\* block of its record, one came after its record was written; all count.
C33_Witness ==
    /\ status = "finalized"
    /\ EncodedIdx # {}
    /\ \E i \in 1..Len(annotations) : AddedInTime(i) /\ i \notin EncodedIdx
    /\ \E i \in 1..Len(annotations) : annotations[i].onset < added[i].at * datarecord_duration
    /\ annotation_count = Len(annotations)
    /\ annotation_count > Cardinality(encoded) + 1

(***************************************************************************)
(* The annotation channel count: a writer that is given one or two signals *)
(* and any channel count, from none to one more than the maximum, before   *)
(* it writes its records.                                                  *)
(***************************************************************************)
ChanSignalChoices == {SigEEG, SigPair}

\* 0 and 65 are out of range; 1 and 64 are the ends of the range.
ChanCountChoices == {0, 1, 2, 64, 65}

\* One record of samples of the shape the signals ask for.
ChanSamples == [i \in 1..Len(signals) |-> [j \in 1..signals[i].samples_per_record |-> 5]]

AddSignalChan == \E sig \in ChanSignalChoices : Len(signals) < MaxSignals /\ add_signal(sig)

SetChannelCount == \E n \in ChanCountChoices : set_number_of_annotation_signals(n)

WriteSamplesChan ==
    Len(signals) > 0 /\ samples_written < MaxRecords /\ write_samples(ChanSamples)

FinalizeChan == finalize

NextChan ==
    \/ AddSignalChan
    \/ SetChannelCount
    \/ WriteSamplesChan
    \/ FinalizeChan

SpecChan == Init /\ [][NextChan]_vars

(***************************************************************************)
(* Claims about the annotation channel count, checked under SpecChan.      *)
(***************************************************************************)
\* The bytes of the record the step appended to the file.
ChanRecord == Slice(file', Len(file') - C4_RecordSize, Len(file'))

\* The 120-byte blocks that follow the samples in the record just written.
ChanBlocks ==
    LET samples == C4_RecordSize - EDFLIB_ANNOTATION_BYTES * nr_annot_chns
    IN  [c \in 1..nr_annot_chns |->
            Slice(ChanRecord, samples + EDFLIB_ANNOTATION_BYTES * (c - 1),
                  samples + EDFLIB_ANNOTATION_BYTES * c)]

\* C34: the annotation channel count is 1 after create; before the header is
\* written set_number_of_annotation_signals(n) returns Ok exactly for
\* 1 <= n <= 64 and sets the count to n, and for n = 0 or n > 64 it fails and
\* leaves the count as it was; every record written holds as many 120-byte
\* annotation blocks as the count in effect at the first write_samples.
C34_Step ==
    /\ (call.op = "create" => nr_annot_chns = 1)
    /\ \A n \in ChanCountChoices :
           (~header_written /\ set_number_of_annotation_signals(n)) =>
               IF 1 <= n /\ n <= 64
                 THEN call'.res = "Ok" /\ nr_annot_chns' = n
                 ELSE call'.res = "InvalidFormat" /\ nr_annot_chns' = nr_annot_chns
    /\ (header_written => nr_annot_chns' = nr_annot_chns)
    /\ (call'.op = "write_samples" /\ call'.res = "Ok") =>
           /\ nr_annot_chns' = nr_annot_chns
           /\ Len(file') = C4_HeaderSize + samples_written' * C4_RecordSize
           /\ ParseInt(Trim(Slice(file', 252, 256))).v = Len(signals) + nr_annot_chns
           /\ Len(ChanBlocks) = nr_annot_chns
           /\ ChanBlocks[1][1] = 43
           /\ \A c \in 2..nr_annot_chns :
                  ChanBlocks[c] = [i \in 1..EDFLIB_ANNOTATION_BYTES |-> 0]

C34_CountOfAnnotationChannels == [][C34_Step]_vars

\* A finalized file of two records written after the count was set to 64, the
\* last call before the records having asked for 65 channels in vain.
C34_Witness ==
    /\ status = "finalized"
    /\ nr_annot_chns = 64
    /\ samples_written = 2
    /\ Len(signals) = 2
    /\ Len(file) = 67 * 256 + 2 * (signals[1].samples_per_record * 2
                                   + signals[2].samples_per_record * 2 + 64 * 120)

(***************************************************************************)
(* Claims about the timestamp unit of a record, checked under Spec.        *)
(***************************************************************************)
\* The 120 bytes of annotation channel c of record r, counted back from the
\* end of the file: the records are the file's last bytes.
BlockFromEnd(r, c) ==
    LET start == Len(file) - (samples_written - r) * C4_RecordSize
                 + (C4_RecordSize - EDFLIB_ANNOTATION_BYTES * nr_annot_chns)
                 + EDFLIB_ANNOTATION_BYTES * c
    IN  Slice(file, start, start + EDFLIB_ANNOTATION_BYTES)

\* The unit a block begins with, when it begins with '+' text 0x14 0x14 0x00
\* and the text is a decimal number of seconds: its time in ticks.
LeadingTimestamp(blk) ==
    LET end == Find(blk, 20)
    IN  IF blk[1] # 43 \/ end < 3 \/ end + 2 > Len(blk) THEN [some |-> FALSE, v |-> 0]
        ELSE IF blk[end + 1] # 20 \/ blk[end + 2] # 0 THEN [some |-> FALSE, v |-> 0]
        ELSE LET t == ParseSecondsToTicks(SubSeq(blk, 2, end - 1))
             IN  [some |-> t.ok, v |-> t.v]

\* A unit with an empty description somewhere in the block.
HoldsTimestampUnit(blk) == \E i \in 1..(Len(blk) - 2) : blk[i] = 20 /\ blk[i + 1] = 20

\* C35: in every record written the block of annotation channel 0 begins with
\* the timestamp unit '+' <start time> 0x14 0x14 0x00, the start time being
\* record index * record duration, plus the sub-second start offset in record
\* 0; no block of another channel holds a timestamp unit; and the timestamps
\* of successive records differ by exactly one record duration.
C35_TimestampUnits ==
    \A r \in 0..(samples_written - 1) :
        LET ts == LeadingTimestamp(BlockFromEnd(r, 0))
        IN  /\ ts.some
            /\ ts.v = r * datarecord_duration
                      + (IF r = 0 /\ starttime_subsecond > 0 THEN starttime_subsecond ELSE 0)
            /\ \A c \in 1..(nr_annot_chns - 1) : ~HoldsTimestampUnit(BlockFromEnd(r, c))
            /\ r > 0 => ts.v - LeadingTimestamp(BlockFromEnd(r - 1, 0)).v
                           = datarecord_duration

\* The part of C35 about each block alone, without the step from record to record.
C35_EachBlock ==
    \A r \in 0..(samples_written - 1) :
        LET ts == LeadingTimestamp(BlockFromEnd(r, 0))
        IN  /\ ts.some
            /\ ts.v = r * datarecord_duration
                      + (IF r = 0 /\ starttime_subsecond > 0 THEN starttime_subsecond ELSE 0)
            /\ \A c \in 1..(nr_annot_chns - 1) : ~HoldsTimestampUnit(BlockFromEnd(r, c))

\* The step from record to record when no sub-second start time is set.
C35_StepWithoutSubsecond ==
    starttime_subsecond = 0 =>
        \A r \in 1..(samples_written - 1) :
            LeadingTimestamp(BlockFromEnd(r, 0)).v
                - LeadingTimestamp(BlockFromEnd(r - 1, 0)).v = datarecord_duration

(***************************************************************************)
(* Digital ranges: a writer that is given signals whose digital range is   *)
(* the whole of, a part of, or wider than the 16-bit range, writes samples *)
(* inside and outside the physical range and finalizes; a client opens the *)
(* file and reads the samples.                                             *)
(***************************************************************************)
\* physical -100..100 on digital -100..100
SigNarrow ==
    [SigEEG EXCEPT !.label = <<78>>, !.physical_min = -100, !.physical_max = 100,
                   !.digital_min = -100, !.digital_max = 100]

\* physical 0..65535 on digital 0..65535: codes of an unsigned 16-bit converter
SigUnsigned ==
    [SigEEG EXCEPT !.label = <<85>>, !.physical_min = 0, !.physical_max = 65535,
                   !.digital_min = 0, !.digital_max = 65535]

ClampSignalChoices == {SigEEG, SigNarrow, SigUnsigned}

\* The physical value every signal is given in record r (counted from 0).
ClampValue(r) == <<40000, -7, -40000, 70000>>[r + 1]

ClampSamples(r) == [i \in 1..Len(signals) |-> <<ClampValue(r)>>]

ClampCountChoices == {1, 2}

AddSignalClamp == \E sig \in ClampSignalChoices : Len(signals) < MaxSignals /\ add_signal(sig)

WriteSamplesClamp ==
    /\ Len(signals) > 0
    /\ samples_written < MaxRecords
    /\ write_samples(ClampSamples(samples_written))

FinalizeClamp == finalize

OpenReaderClamp == status = "finalized" /\ ~reader.opened /\ open_reader

ReadDigitalClamp ==
    \E signal \in 0..(MaxSignals - 1), count \in ClampCountChoices :
        read_digital_samples(signal, count)

NextClamp ==
    \/ AddSignalClamp
    \/ WriteSamplesClamp
    \/ FinalizeClamp
    \/ OpenReaderClamp
    \/ ReadDigitalClamp

SpecClamp == Init /\ [][NextClamp]_vars

(***************************************************************************)
(* Claims about the stored codes, checked under SpecClamp.                 *)
(***************************************************************************)
\* to_digital of the sample of record r of signal s (counted from 0), clamped
\* into the signal's digital range.
ClampedCode(s, r) ==
    LET sig == signals[s + 1]
        code == to_digital(sig, ClampValue(r))
    IN  IF code < sig.digital_min THEN sig.digital_min
        ELSE IF code > sig.digital_max THEN sig.digital_max
        ELSE code

\* The 16-bit value the file holds for record r of signal s, every signal of
\* this writer having one sample a record.
StoredCode(s, r) ==
    LET at == (Len(signals) + nr_annot_chns + 1) * 256
              + r * (2 * Len(signals) + EDFLIB_ANNOTATION_BYTES * nr_annot_chns) + 2 * s
    IN  I16FromLe(Slice(file, at, at + 2))

\* C36: for every signal add_signal accepted and every sample written, the
\* 16-bit value in the file is to_digital(physical value) clamped into
\* [digital_min, digital_max], not wrapped by the cut to 16 bits, and every
\* value read_digital_samples returns lies in [digital_min, digital_max] and
\* is that clamped code.
C36_Step ==
    /\ \A s \in 0..(Len(signals') - 1), r \in 0..(samples_written' - 1) :
           StoredCode(s, r)' = ClampedCode(s, r)'
    /\ (result'.op = "read_digital_samples" /\ result'.signal < Len(signals)) =>
           /\ result'.res = "Ok"
           /\ \A i \in 1..Len(result'.samples) :
                  LET sig == signals[result'.signal + 1]
                      r == reader.sample_positions[result'.signal + 1] + i - 1
                  IN  /\ result'.samples[i] >= sig.digital_min
                      /\ result'.samples[i] <= sig.digital_max
                      /\ result'.samples[i] = ClampedCode(result'.signal, r)

C36_StoredCodeIsClampedCode == [][C36_Step]_vars

\* The same for the signals whose digital range lies within -32768..32767.
C36_StepWithin16Bits ==
    /\ \A s \in 0..(Len(signals') - 1), r \in 0..(samples_written' - 1) :
           (signals'[s + 1].digital_min >= -32768 /\ signals'[s + 1].digital_max <= 32767)
               => StoredCode(s, r)' = ClampedCode(s, r)'
    /\ (result'.op = "read_digital_samples" /\ result'.signal < Len(signals)) =>
           /\ result'.res = "Ok"
           /\ \A i \in 1..Len(result'.samples) :
                  LET sig == signals[result'.signal + 1]
                      r == reader.sample_positions[result'.signal + 1] + i - 1
                  IN  /\ result'.samples[i] >= sig.digital_min
                      /\ result'.samples[i] <= sig.digital_max
                      /\ (sig.digital_min >= -32768 /\ sig.digital_max <= 32767)
                             => result'.samples[i] = ClampedCode(result'.signal, r)

C36_ClampedWithin16Bits == [][C36_StepWithin16Bits]_vars

(***************************************************************************)
(* Claims about the files of the writer as the reader sees them (Spec).    *)
(***************************************************************************)
\* The reader's header lists the writer's signals: as many, in their order
\* (told by their labels), each with its samples_per_record.
ListsTheSignals(h) ==
    /\ Len(h.signals) = Len(signals)
    /\ \A i \in 1..Len(signals) :
           /\ h.signals[i].label = signals[i].label
           /\ h.signals[i].samples_per_record = signals[i].samples_per_record

\* C37: every file the writer produced (signals add_signal accepted, any
\* accepted configuration, at least one successful write_samples, finalize)
\* is accepted by open, and the reader's header.signals has as many entries as
\* add_signal was given signals, in the same order and with the same
\* samples_per_record, the annotation channels left out.
C37_WriterFilesOpen ==
    (status = "finalized" /\ samples_written >= 1) =>
        LET o == open(file)
        IN  o.err = "none" /\ ListsTheSignals(o.header)

\* The same for the writers whose signals' limits print in 8 characters.
FieldsFit ==
    \A i \in 1..Len(signals) :
        /\ Len(DecStr(signals[i].physical_min)) <= 8
        /\ Len(DecStr(signals[i].physical_max)) <= 8

C37_FittingFilesOpen ==
    (status = "finalized" /\ samples_written >= 1 /\ FieldsFit) =>
        LET o == open(file)
        IN  o.err = "none" /\ ListsTheSignals(o.header)

(***************************************************************************)
(* Opening files whose data records are damaged or missing: the producer   *)
(* of SpecScan, with a client that may open the file before the producer   *)
(* has appended all the records its header announces.                      *)
(***************************************************************************)
\* EdfReader::open on a file that holds fewer records than its header says.
OpenTruncated ==
    /\ ScanRecords < MaxScanRecords
    /\ ~reader.opened
    /\ open_reader

NextOpen ==
    \/ AppendRecord
    \/ DamageBlock
    \/ OpenFile
    \/ OpenTruncated

SpecOpen == InitScan /\ [][NextOpen]_vars

\* The damage took the timestamp of a record that has one before and one
\* behind it: the next record's timestamp is two record durations after the
\* last one the scan saw.
TimestampGap ==
    /\ result.op = "damage"
    /\ result.channel = 0
    /\ result.record_idx >= 1
    /\ result.record_idx < MaxScanRecords - 1

\* C38: with a valid main header and signal block open returns Ok whatever
\* the data records hold: damaged TAL bytes, a record timestamp that does not
\* come one record duration after the last, or records missing from the end
\* of the file.  A scan that fails for one of these is swallowed: records
\* missing leave annotations() empty and annotations_in_file = 0, a timestamp
\* out of step leaves annotations() empty.
C38_Step ==
    result'.op = "open" =>
        /\ result'.res = "none"
        /\ reader'.opened
        /\ ScanRecords < MaxScanRecords =>
               /\ reader'.annotations = <<>>
               /\ reader'.header.annotations_in_file = 0
        /\ TimestampGap => reader'.annotations = <<>>

C38_RecordsNeverFailOpen == [][C38_Step]_vars

\* A file with two of its three records, the first with a TAL the parser
\* reads, was opened: no annotation is listed or counted.
C38_Witness ==
    /\ reader.opened
    /\ result.op = "open"
    /\ ScanRecords = 2
    /\ ScanBlockAnnotations(file, 0, 1) # <<>>
    /\ reader.annotations = <<>>
    /\ reader.header.annotations_in_file = 0

(***************************************************************************)
(* Claims about the fields of the annotations read, checked under SpecUnit.*)
(***************************************************************************)
\* C39 as stated: every annotation read has onset >= 0, duration >= -1 and a
\* description that is not empty.
C39_OnsetNeverNegative ==
    Parsed =>
        \A i \in 1..Len(result.res.annotations) :
            LET a == result.res.annotations[i]
            IN  a.onset >= 0 /\ a.duration >= -1 /\ Len(a.description) > 0

\* C39: every annotation read has duration >= -1 (-1 when the TAL has no
\* duration) and a description that is not empty; its onset is the onset of
\* the TAL, which may lie before the start of the file.
C39_DurationAndDescription ==
    Parsed =>
        \A i \in 1..Len(result.res.annotations) :
            LET a == result.res.annotations[i]
            IN  a.duration >= -1 /\ Len(a.description) > 0

\* A block with a unit of empty description, a TAL with a duration and one
\* without: two annotations are read, of negative onset, one with its
\* duration and one with -1.
C39_Witness ==
    /\ Parsed
    /\ tal_units = <<TalPlain, TalEmpty, TalWithDuration>>
    /\ Len(result.res.annotations) = 2
    /\ \E i \in 1..2 : /\ result.res.annotations[i].duration = 5000000
                        /\ result.res.annotations[i].onset = -25000000
    /\ \E i \in 1..2 : /\ result.res.annotations[i].duration = -1
                        /\ result.res.annotations[i].onset = -10000000

(***************************************************************************)
(* Patient information: a writer that is told who the patient is, in words *)
(* with and without spaces and letters outside ASCII, writes records and   *)
(* finalizes.                                                              *)
(***************************************************************************)
\* "P1", "M", "02-MAY-1951", "Doe"
PatientPlain ==
    <<(<<80, 49>>), (<<77>>), (<<48, 50, 45, 77, 65, 89, 45, 49, 57, 53, 49>>),
      (<<68, 111, 101>>)>>

\* "P001-2024", "F", "15-MAR-1990", "Jane Doe"
PatientTwoWords ==
    <<(<<80, 48, 48, 49, 45, 50, 48, 50, 52>>), (<<70>>),
      (<<49, 53, 45, 77, 65, 82, 45, 49, 57, 57, 48>>),
      (<<74, 97, 110, 101, 32, 68, 111, 101>>)>>

\* "P2", "X", "X", "Zo<e-diaeresis>"
PatientNotAscii == <<(<<80, 50>>), (<<88>>), (<<88>>), (<<90, 111, 235>>)>>

\* "P3", "", "X", "Roe": no sex given
PatientNoSex == <<(<<80, 51>>), (<<>>), (<<88>>), (<<82, 111, 101>>)>>

PatientInfoChoices == {PatientPlain, PatientTwoWords, PatientNotAscii, PatientNoSex}

SetPatientInfoAny == \E p \in PatientInfoChoices : set_patient_info(p[1], p[2], p[3], p[4])

NextPatient ==
    \/ AddSignalChan
    \/ SetPatientInfoAny
    \/ WriteSamplesChan
    \/ FinalizeChan

SpecPatient == Init /\ [][NextPatient]_vars

(***************************************************************************)
(* Claims about the patient information, checked under SpecPatient.        *)
(***************************************************************************)
\* C40: the code, sex, birthdate and name given to set_patient_info are what
\* the reader's header holds as patient_code, sex, birthdate and patient_name
\* when the file was written, finalized and opened.
C40_PatientReadBack ==
    (status = "finalized" /\ samples_written >= 1) =>
        /\ open(file).err = "none"
        /\ HeaderPatient(file)
               = [patient_code |-> patient_code, sex |-> sex, birthdate |-> birthdate,
                  patient_name |-> patient_name]

\* A text of ASCII characters, none of them a space, and not empty.
OneAsciiWord(s) == Len(s) > 0 /\ \A i \in 1..Len(s) : s[i] < 128 /\ ~IsSpace(s[i])

\* The same for information given as four ASCII words.
C40_WordsReadBack ==
    (/\ status = "finalized" /\ samples_written >= 1
     /\ OneAsciiWord(patient_code) /\ OneAsciiWord(sex) /\ OneAsciiWord(birthdate)
     /\ OneAsciiWord(patient_name)) =>
        /\ open(file).err = "none"
        /\ HeaderPatient(file)
               = [patient_code |-> patient_code, sex |-> sex, birthdate |-> birthdate,
                  patient_name |-> patient_name]

====
